---- MODULE Spec2Model ----
(***************************************************************************)
(* MetaMold-AI: the manufacturing-cost model (BudgetCalculator) and the    *)
(* complexity scoring of GeometryAnalyzer.                                  *)
(*                                                                         *)
(* Python floats are modelled as exact rationals [num, den] in lowest      *)
(* terms; round(x, n) is round-half-to-even on the exact value.  The two   *)
(* agree with the float code except on some exact decimal ties, where the  *)
(* binary representation of the float decides the direction.               *)
(***************************************************************************)
EXTENDS Integers, Sequences, FiniteSets, TLC

VARIABLES req, res, mesh, geo, sreq, sres, analyzer, calculator, threads, seen,
          processor, upload, loaded

vars == <<req, res, mesh, geo, sreq, sres, analyzer, calculator, threads, seen,
          processor, upload, loaded>>

\* the call to the simple pricing path and its result
quote_vars == <<sreq, sres>>

\* the shared GeometryAnalyzer and BudgetCalculator, the calls running on them,
\* and the statistics returned so far
shared_vars == <<analyzer, calculator, threads, seen>>

\* the StepProcessor, the file being imported and what the import returned
import_vars == <<processor, upload, loaded>>

(***************************************************************************)
(* Exact rational arithmetic (the model of float arithmetic).              *)
(***************************************************************************)
Abs(n) == IF n < 0 THEN -n ELSE n

RECURSIVE GCD(_, _)
GCD(a, b) == IF b = 0 THEN a ELSE GCD(b, a % b)

\* n/d in lowest terms with a positive denominator
R(n, d) ==
    LET s == IF d < 0 THEN -1 ELSE 1
        g == GCD(Abs(n), Abs(d))
    IN  [num |-> (s * n) \div g, den |-> (s * d) \div g]

RInt(n) == [num |-> n, den |-> 1]

RAdd(a, b) ==
    LET g == GCD(a.den, b.den)
    IN  R(a.num * (b.den \div g) + b.num * (a.den \div g), (a.den \div g) * b.den)

RNeg(a) == [num |-> -a.num, den |-> a.den]

RSub(a, b) == RAdd(a, RNeg(b))

RMul(a, b) ==
    LET g1 == GCD(Abs(a.num), b.den)
        g2 == GCD(Abs(b.num), a.den)
        h1 == IF g1 = 0 THEN 1 ELSE g1
        h2 == IF g2 = 0 THEN 1 ELSE g2
    IN  R((a.num \div h1) * (b.num \div h2), (a.den \div h2) * (b.den \div h1))

\* a / b, for b # 0
RDiv(a, b) == RMul(a, R(b.den, b.num))

RLt(a, b) == a.num * b.den < b.num * a.den

RLe(a, b) == a.num * b.den <= b.num * a.den

RGt(a, b) == RLt(b, a)

RGe(a, b) == RLe(b, a)

RMin(a, b) == IF RLe(a, b) THEN a ELSE b

RMax(a, b) == IF RLe(a, b) THEN b ELSE a

Pow10(n) == IF n = 0 THEN 1 ELSE IF n = 1 THEN 10 ELSE IF n = 2 THEN 100
            ELSE IF n = 3 THEN 1000 ELSE 10000

\* Python round(x, ndigits): the nearest multiple of 10^-ndigits, ties to even
Round(x, ndigits) ==
    LET p   == Pow10(ndigits)
        y   == RMul(x, RInt(p))
        fl  == y.num \div y.den
        rem == y.num % y.den
        up  == 2 * rem > y.den \/ (2 * rem = y.den /\ fl % 2 = 1)
    IN  R(IF up THEN fl + 1 ELSE fl, p)

(***************************************************************************)
(* Python values: None / dict for Optional[Dict], dict.get, truthiness.    *)
(***************************************************************************)
\* Optional[Dict]: None is the empty sequence, a dict d is <<d>>
None == <<>>

Some(d) == <<d>>

EmptyDict == [k \in {} |-> 0]

\* `if cfg:` is false for None and for the empty dict
Truthy(opt) == opt # None /\ DOMAIN opt[1] # {}

\* d.get(key, default)
Get(d, key, default) == IF key \in DOMAIN d THEN d[key] ELSE default

\* a quantity argument: a number, or a value that is no number (a str, None)
IntQ(n) == [kind |-> "int", val |-> n]

StrQ == [kind |-> "str", val |-> 0]

(***************************************************************************)
(* The static catalogs of BudgetCalculator.                                *)
(***************************************************************************)
MATERIAL_PRICES ==
    ("H13" :> [price |-> R(85, 100), name |-> "Aco H13"]) @@
    ("P20" :> [price |-> R(65, 100), name |-> "Aco P20"]) @@
    ("718" :> [price |-> R(75, 100), name |-> "Aco 718"]) @@
    ("ALUMINUM" :> [price |-> R(45, 100), name |-> "Aluminio 7075"]) @@
    ("S7" :> [price |-> R(70, 100), name |-> "Aco S7"])

FINISH_MULTIPLIERS ==
    ("machined" :> [multiplier |-> R(10, 10), name |-> "Maquinado"]) @@
    ("ground" :> [multiplier |-> R(13, 10), name |-> "Retificado"]) @@
    ("polished" :> [multiplier |-> R(15, 10), name |-> "Polido"]) @@
    ("textured" :> [multiplier |-> R(18, 10), name |-> "Texturizado"]) @@
    ("edm" :> [multiplier |-> R(22, 10), name |-> "Eletroerosao (EDM)"])

BASE_FIXED_FEE == 2500

MOLD_BASE_EXTRAS ==
    [HOT_RUNNER |-> 3500, CONFORMAL_COOLING |-> 5000, DOUBLE_EXTRACTION |-> 1500,
     LIFTING_HOLES |-> 300, INSULATION |-> 800]

CAD_MOLD_BASE_PRICES ==
    ("HASCO Standard" :> [base |-> 3500]) @@
    ("HASCO Premium" :> [base |-> 4500]) @@
    ("DME Standard" :> [base |-> 3200]) @@
    ("DME Premium" :> [base |-> 4200]) @@
    ("FUTABA Standard" :> [base |-> 3000]) @@
    ("FUTABA Premium" :> [base |-> 4000])

PLATE_MATERIAL_ADDONS ==
    ("Aco 1.1730 (C45W)" :> 0) @@
    ("Aco 1.2311 (P20)" :> 200) @@
    ("Aco 1.2312 (P20+S)" :> 350) @@
    ("Aco 1.2344 (H13)" :> 800) @@
    ("Aluminio 7075" :> (-500)) @@
    ("Aco 1.2767 (H13 Mod)" :> 1200)

HOURLY_RATES ==
    [cnc3Axis |-> 55, cnc5Axis |-> 85, edm |-> 75, finishing |-> 45,
     assembly |-> 50, quality |-> 60]

(***************************************************************************)
(* BudgetCalculator: the cost components.                                  *)
(***************************************************************************)
\* calculate_material_cost with a plausible fault: the fallback material is H13
calculate_material_cost_fallback_h13(volume, material) ==
    LET material_info == Get(MATERIAL_PRICES, material, MATERIAL_PRICES["H13"])
    IN  RMul(RMul(volume, R(115, 100)), material_info.price)

\* calculate_material_cost with a plausible fault: the 15% waste is left out
calculate_material_cost_no_waste(volume, material) ==
    LET material_info == Get(MATERIAL_PRICES, material, MATERIAL_PRICES["P20"])
    IN  RMul(volume, material_info.price)

\* _calculate_material_cost: 15% waste on the volume, times the price per cm3
calculate_material_cost(volume, material) ==
    LET material_info == Get(MATERIAL_PRICES, material, MATERIAL_PRICES["P20"])
        price_per_cm3 == material_info.price
        gross_volume  == RMul(volume, R(115, 100))
    IN  RMul(gross_volume, price_per_cm3)

\* machining_hourly_rate with a plausible fault: the thresholds are inclusive
machining_hourly_rate_inclusive(complexity_factor) ==
    IF RGe(complexity_factor, R(7, 10)) THEN RInt(HOURLY_RATES.cnc5Axis)
    ELSE IF RGe(complexity_factor, R(4, 10)) THEN RInt(HOURLY_RATES.cnc3Axis)
    ELSE RMul(RInt(HOURLY_RATES.cnc3Axis), R(9, 10))

\* the hourly machining rate selected by the complexity factor
machining_hourly_rate(complexity_factor) ==
    IF RGt(complexity_factor, R(7, 10)) THEN RInt(HOURLY_RATES.cnc5Axis)
    ELSE IF RGt(complexity_factor, R(4, 10)) THEN RInt(HOURLY_RATES.cnc3Axis)
    ELSE RMul(RInt(HOURLY_RATES.cnc3Axis), R(9, 10))

\* edm_applies with a plausible fault: the threshold is inclusive
edm_applies_inclusive(finish, complexity_factor) ==
    finish = "edm" \/ RGe(complexity_factor, R(8, 10))

\* whether the EDM cost is part of the processing cost
edm_applies(finish, complexity_factor) ==
    finish = "edm" \/ RGt(complexity_factor, R(8, 10))

\* _calculate_processing_cost
calculate_processing_cost(volume, material, finish, complexity, manufacturing) ==
    LET base_rate         == R(1, 2)
        complexity_factor == RDiv(Get(complexity, "complexity_score", RInt(50)), RInt(50))
        machining_minutes ==
            RMul(RMul(volume, base_rate), RAdd(RInt(1), RMul(complexity_factor, R(1, 2))))
        hourly_rate       == machining_hourly_rate(complexity_factor)
        machining_cost    == RMul(RDiv(machining_minutes, RInt(60)), hourly_rate)
        finish_info       == Get(FINISH_MULTIPLIERS, finish, FINISH_MULTIPLIERS["machined"])
        finish_multiplier == finish_info.multiplier
        finish_cost       ==
            RMul(RMul(machining_cost, RSub(finish_multiplier, RInt(1))), R(3, 10))
        edm_minutes       == RMul(volume, R(2, 10))
        edm_cost          ==
            IF edm_applies(finish, complexity_factor)
            THEN RMul(RDiv(edm_minutes, RInt(60)), RInt(HOURLY_RATES.edm))
            ELSE RInt(0)
        finishing_minutes == RMul(RMul(volume, R(1, 10)), finish_multiplier)
        finishing_cost    == RMul(RDiv(finishing_minutes, RInt(60)), RInt(HOURLY_RATES.finishing))
        assembly_hours    == RAdd(RInt(8), RMul(complexity_factor, RInt(4)))
        assembly_cost     == RMul(assembly_hours, RInt(HOURLY_RATES.assembly))
        qa_hours          == RAdd(RInt(4), RMul(complexity_factor, RInt(2)))
        qa_cost           == RMul(qa_hours, RInt(HOURLY_RATES.quality))
    IN  RAdd(RAdd(RAdd(RAdd(RAdd(machining_cost, finish_cost), edm_cost),
                       finishing_cost), assembly_cost), qa_cost)

\* calculate_mold_base_cost with a plausible fault: the legacy config is looked at
\* first, and the CAD-catalog extras are left out
calculate_mold_base_cost_legacy_first(mold_base_config, cad_base_config) ==
    IF Truthy(mold_base_config) THEN
        LET cfg == mold_base_config[1]
        IN  RAdd(RMul(R(Get(cfg, "plateWidth", 296) * Get(cfg, "plateLength", 296), 10000),
                      RInt(400)),
                 RInt((IF Get(cfg, "hotRunner", FALSE) THEN MOLD_BASE_EXTRAS.HOT_RUNNER ELSE 0)
                      + (IF Get(cfg, "conformalCooling", FALSE)
                         THEN MOLD_BASE_EXTRAS.CONFORMAL_COOLING ELSE 0)
                      + (IF Get(cfg, "doubleExtraction", FALSE)
                         THEN MOLD_BASE_EXTRAS.DOUBLE_EXTRACTION ELSE 0)))
    ELSE IF Truthy(cad_base_config) THEN
        LET cfg == cad_base_config[1]
        IN  RInt(Get(CAD_MOLD_BASE_PRICES, Get(cfg, "supplier", "HASCO Standard"),
                     CAD_MOLD_BASE_PRICES["HASCO Standard"]).base
                 + Get(PLATE_MATERIAL_ADDONS, Get(cfg, "plateMaterial", "Aco 1.1730 (C45W)"), 0))
    ELSE RInt(3000)

\* calculate_mold_base_cost with a plausible fault: the hot-runner extra of the
\* legacy config is charged on top of the CAD-catalog cost
calculate_mold_base_cost_legacy_extras(mold_base_config, cad_base_config) ==
    IF Truthy(cad_base_config) THEN
        LET cfg == cad_base_config[1]
        IN  RInt(Get(CAD_MOLD_BASE_PRICES, Get(cfg, "supplier", "HASCO Standard"),
                     CAD_MOLD_BASE_PRICES["HASCO Standard"]).base
                 + Get(PLATE_MATERIAL_ADDONS, Get(cfg, "plateMaterial", "Aco 1.1730 (C45W)"), 0)
                 + (IF Get(cfg, "insulationPlates", FALSE)
                    THEN MOLD_BASE_EXTRAS.INSULATION ELSE 0)
                 + (IF Get(cfg, "liftingHoles", FALSE)
                    THEN MOLD_BASE_EXTRAS.LIFTING_HOLES ELSE 0)
                 + (IF Truthy(mold_base_config) /\ Get(mold_base_config[1], "hotRunner", FALSE)
                    THEN MOLD_BASE_EXTRAS.HOT_RUNNER ELSE 0))
    ELSE IF Truthy(mold_base_config) THEN
        LET cfg == mold_base_config[1]
        IN  RAdd(RMul(R(Get(cfg, "plateWidth", 296) * Get(cfg, "plateLength", 296), 10000),
                      RInt(400)),
                 RInt((IF Get(cfg, "hotRunner", FALSE) THEN MOLD_BASE_EXTRAS.HOT_RUNNER ELSE 0)
                      + (IF Get(cfg, "conformalCooling", FALSE)
                         THEN MOLD_BASE_EXTRAS.CONFORMAL_COOLING ELSE 0)
                      + (IF Get(cfg, "doubleExtraction", FALSE)
                         THEN MOLD_BASE_EXTRAS.DOUBLE_EXTRACTION ELSE 0)))
    ELSE RInt(3000)

\* _calculate_mold_base_cost: CAD catalog base, else legacy plate, else flat default
calculate_mold_base_cost(mold_base_config, cad_base_config) ==
    IF Truthy(cad_base_config) THEN
        LET cfg            == cad_base_config[1]
            supplier       == Get(cfg, "supplier", "HASCO Standard")
            base_info      == Get(CAD_MOLD_BASE_PRICES, supplier,
                                  CAD_MOLD_BASE_PRICES["HASCO Standard"])
            plate_material == Get(cfg, "plateMaterial", "Aco 1.1730 (C45W)")
            addon          == Get(PLATE_MATERIAL_ADDONS, plate_material, 0)
            insulation     == IF Get(cfg, "insulationPlates", FALSE)
                              THEN MOLD_BASE_EXTRAS.INSULATION ELSE 0
            lifting        == IF Get(cfg, "liftingHoles", FALSE)
                              THEN MOLD_BASE_EXTRAS.LIFTING_HOLES ELSE 0
        IN  RInt(base_info.base + addon + insulation + lifting)
    ELSE IF Truthy(mold_base_config) THEN
        LET cfg       == mold_base_config[1]
            width     == Get(cfg, "plateWidth", 296)
            length    == Get(cfg, "plateLength", 296)
            base_cost == RMul(R(width * length, 10000), RInt(400))
            hot       == IF Get(cfg, "hotRunner", FALSE)
                         THEN MOLD_BASE_EXTRAS.HOT_RUNNER ELSE 0
            cooling   == IF Get(cfg, "conformalCooling", FALSE)
                         THEN MOLD_BASE_EXTRAS.CONFORMAL_COOLING ELSE 0
            double    == IF Get(cfg, "doubleExtraction", FALSE)
                         THEN MOLD_BASE_EXTRAS.DOUBLE_EXTRACTION ELSE 0
        IN  RAdd(base_cost, RInt(hot + cooling + double))
    ELSE RInt(3000)

\* calculate_setup_fee with a plausible fault: the engineering surcharge is added
\* for every legacy config that names conformalCooling, whatever its value
calculate_setup_fee_key_present(mold_base_config) ==
    IF Truthy(mold_base_config) /\ "conformalCooling" \in DOMAIN mold_base_config[1]
    THEN RInt(BASE_FIXED_FEE + 1500)
    ELSE RInt(BASE_FIXED_FEE)

\* _calculate_setup_fee: the base fee, plus 1500 of engineering for conformal cooling
calculate_setup_fee(mold_base_config) ==
    IF Truthy(mold_base_config) /\ Get(mold_base_config[1], "conformalCooling", FALSE)
    THEN RInt(BASE_FIXED_FEE + 1500)
    ELSE RInt(BASE_FIXED_FEE)

\* calculate_discount with a plausible fault: the tier rates are assigned in the wrong order
calculate_discount_swapped_tiers(quantity) ==
    IF quantity >= 100 THEN R(5, 100)
    ELSE IF quantity >= 50 THEN R(10, 100)
    ELSE IF quantity >= 10 THEN R(15, 100)
    ELSE RInt(0)

\* calculate_discount with a plausible fault: the lowest tier starts above 10, not at 10
calculate_discount_above_ten(quantity) ==
    IF quantity >= 100 THEN R(15, 100)
    ELSE IF quantity >= 50 THEN R(10, 100)
    ELSE IF quantity > 10 THEN R(5, 100)
    ELSE RInt(0)

\* _calculate_discount: the discount rate of the quantity tier
calculate_discount(quantity) ==
    IF quantity >= 100 THEN R(15, 100)
    ELSE IF quantity >= 50 THEN R(10, 100)
    ELSE IF quantity >= 10 THEN R(5, 100)
    ELSE RInt(0)

\* discount_raises with a plausible fault: a non-positive quantity is rejected as well
discount_raises_nonpositive(quantity) == quantity.kind # "int" \/ quantity.val <= 0

\* `quantity >= 100` raises TypeError when quantity is no number
discount_raises(quantity) == quantity.kind # "int"

\* subtotal = material_cost + processing_cost + mold_base_cost + setup_fee
subtotal_of(material_cost, processing_cost, mold_base_cost, setup_fee) ==
    RAdd(RAdd(RAdd(material_cost, processing_cost), mold_base_cost), setup_fee)

\* total_price_of with a plausible fault: the discount is taken off the rounded subtotal
total_price_of_rounded_subtotal(subtotal, discount) ==
    Round(RSub(Round(subtotal, 2), RMul(Round(subtotal, 2), discount)), 2)

\* total_price = round(subtotal - subtotal * discount, 2)
total_price_of(subtotal, discount) ==
    Round(RSub(subtotal, RMul(subtotal, discount)), 2)

\* price_per_piece_of with a plausible fault: only a zero quantity is guarded
price_per_piece_nonzero(total_price, quantity) ==
    IF quantity # 0 THEN Round(RDiv(total_price, RInt(Abs(quantity))), 2) ELSE RInt(0)

\* price_per_piece = round(total_price / quantity, 2) if quantity > 0 else 0
price_per_piece_of(total_price, quantity) ==
    IF quantity > 0 THEN Round(RDiv(total_price, RInt(quantity)), 2) ELSE RInt(0)

\* the result of a call that raised: no budget is returned
Raised(error) == [status |-> "raised", error |-> error]

\* BudgetCalculator.calculate
calculate(stats, material, finish, quantity, mold_base_config, cad_base_config) ==
    LET volume          == Get(stats, "volume", RInt(100))
        complexity      == Get(stats, "complexity_metrics", EmptyDict)
        manufacturing   == Get(stats, "manufacturing_analysis", EmptyDict)
        material_cost   == calculate_material_cost(volume, material)
        processing_cost ==
            calculate_processing_cost(volume, material, finish, complexity, manufacturing)
        mold_base_cost  == calculate_mold_base_cost(mold_base_config, cad_base_config)
        setup_fee       == calculate_setup_fee(mold_base_config)
        subtotal        == subtotal_of(material_cost, processing_cost, mold_base_cost, setup_fee)
        discount        == calculate_discount(quantity.val)
        discount_amount == RMul(subtotal, discount)
        total_price     == total_price_of(subtotal, discount)
        breakdown       ==
            [material_cost    |-> Round(material_cost, 2),
             processing_cost  |-> Round(processing_cost, 2),
             mold_base_cost   |-> Round(mold_base_cost, 2),
             setup_fee        |-> Round(setup_fee, 2),
             subtotal         |-> Round(subtotal, 2),
             discount_percent |-> Round(RMul(discount, RInt(100)), 0).num,
             discount_amount  |-> Round(discount_amount, 2),
             quantity         |-> quantity.val,
             price_per_piece  |-> price_per_piece_of(total_price, quantity.val)]
    IN  IF discount_raises(quantity) THEN Raised("TypeError")
        ELSE [status          |-> "ok",
              total_price     |-> total_price,
              breakdown       |-> breakdown,
              material_cost   |-> material_cost,
              processing_cost |-> processing_cost,
              mold_base_cost  |-> mold_base_cost,
              setup_fee       |-> setup_fee,
              discount        |-> discount,
              final_price     |-> total_price,
              material_info   |-> Get(MATERIAL_PRICES, material, EmptyDict),
              finish_info     |-> Get(FINISH_MULTIPLIERS, finish, EmptyDict),
              manufacturing_recommendations |->
                  Get(manufacturing, "process_recommendations", <<>>)]

(***************************************************************************)
(* calculate in two halves, as a thread runs it on a shared calculator     *)
(* self: first the cost components (local variables of the call), then the *)
(* discount, the total and the result.  Each half yields the calculator    *)
(* and the caller's arguments as the call leaves them.                     *)
(***************************************************************************)
\* calculate_costs with a plausible fault: the fallback material is stored in the
\* catalog (setdefault) instead of only being read (get)
calculate_costs_setdefault(self, r) ==
    LET volume          == Get(r.stats, "volume", RInt(100))
        complexity      == Get(r.stats, "complexity_metrics", EmptyDict)
        manufacturing   == Get(r.stats, "manufacturing_analysis", EmptyDict)
        material_cost   == calculate_material_cost(volume, r.material)
        processing_cost ==
            calculate_processing_cost(volume, r.material, r.finish, complexity, manufacturing)
        mold_base_cost  == calculate_mold_base_cost(r.mold_base_config, r.cad_base_config)
        setup_fee       == calculate_setup_fee(r.mold_base_config)
    IN  [self   |-> [self EXCEPT !.MATERIAL_PRICES =
                        IF r.material \in DOMAIN @ THEN @
                        ELSE @ @@ (r.material :> @["P20"])],
         args   |-> r,
         locals |-> [material_cost |-> material_cost, processing_cost |-> processing_cost,
                     mold_base_cost |-> mold_base_cost, setup_fee |-> setup_fee,
                     subtotal |-> subtotal_of(material_cost, processing_cost,
                                              mold_base_cost, setup_fee)]]

\* the first half of calculate: the four cost components and the subtotal
calculate_costs(self, r) ==
    LET volume          == Get(r.stats, "volume", RInt(100))
        complexity      == Get(r.stats, "complexity_metrics", EmptyDict)
        manufacturing   == Get(r.stats, "manufacturing_analysis", EmptyDict)
        material_cost   == calculate_material_cost(volume, r.material)
        processing_cost ==
            calculate_processing_cost(volume, r.material, r.finish, complexity, manufacturing)
        mold_base_cost  == calculate_mold_base_cost(r.mold_base_config, r.cad_base_config)
        setup_fee       == calculate_setup_fee(r.mold_base_config)
    IN  [self   |-> self,
         args   |-> r,
         locals |-> [material_cost |-> material_cost, processing_cost |-> processing_cost,
                     mold_base_cost |-> mold_base_cost, setup_fee |-> setup_fee,
                     subtotal |-> subtotal_of(material_cost, processing_cost,
                                              mold_base_cost, setup_fee)]]

\* the budget built from the cost components of a call
budget_of(self, r, locals) ==
    LET discount        == calculate_discount(r.quantity.val)
        total_price     == total_price_of(locals.subtotal, discount)
        manufacturing   == Get(r.stats, "manufacturing_analysis", EmptyDict)
    IN  IF discount_raises(r.quantity) THEN Raised("TypeError")
        ELSE [status          |-> "ok",
              total_price     |-> total_price,
              breakdown       |->
                  [material_cost    |-> Round(locals.material_cost, 2),
                   processing_cost  |-> Round(locals.processing_cost, 2),
                   mold_base_cost   |-> Round(locals.mold_base_cost, 2),
                   setup_fee        |-> Round(locals.setup_fee, 2),
                   subtotal         |-> Round(locals.subtotal, 2),
                   discount_percent |-> Round(RMul(discount, RInt(100)), 0).num,
                   discount_amount  |-> Round(RMul(locals.subtotal, discount), 2),
                   quantity         |-> r.quantity.val,
                   price_per_piece  |-> price_per_piece_of(total_price, r.quantity.val)],
              material_cost   |-> locals.material_cost,
              processing_cost |-> locals.processing_cost,
              mold_base_cost  |-> locals.mold_base_cost,
              setup_fee       |-> locals.setup_fee,
              discount        |-> discount,
              final_price     |-> total_price,
              material_info   |-> Get(self.MATERIAL_PRICES, r.material, EmptyDict),
              finish_info     |-> Get(self.FINISH_MULTIPLIERS, r.finish, EmptyDict),
              manufacturing_recommendations |->
                  Get(manufacturing, "process_recommendations", <<>>)]

\* calculate_total with a plausible fault: the subtotal is kept on the calculator
\* and the one of the call before is used
calculate_total_stale_subtotal(self, r, locals) ==
    [self   |-> [initialized |-> self.initialized,
                 MATERIAL_PRICES |-> self.MATERIAL_PRICES,
                 FINISH_MULTIPLIERS |-> self.FINISH_MULTIPLIERS,
                 BASE_FIXED_FEE |-> self.BASE_FIXED_FEE,
                 MOLD_BASE_EXTRAS |-> self.MOLD_BASE_EXTRAS,
                 CAD_MOLD_BASE_PRICES |-> self.CAD_MOLD_BASE_PRICES,
                 PLATE_MATERIAL_ADDONS |-> self.PLATE_MATERIAL_ADDONS,
                 HOURLY_RATES |-> self.HOURLY_RATES,
                 subtotal |-> locals.subtotal],
     args   |-> r,
     result |-> budget_of(self, r,
                          IF "subtotal" \in DOMAIN self
                          THEN [locals EXCEPT !.subtotal = self.subtotal]
                          ELSE locals)]

\* the second half of calculate: discount, total, breakdown and the result
calculate_total(self, r, locals) ==
    [self |-> self, args |-> r, result |-> budget_of(self, r, locals)]

\* get_material_list, get_finish_list, get_mold_base_list: a fresh record
\* {"id": key, **value} for every entry of the catalog
catalog_list(catalog) == {[id |-> key] @@ catalog[key] : key \in DOMAIN catalog}

get_material_list(self) == catalog_list(self.MATERIAL_PRICES)

get_finish_list(self) == catalog_list(self.FINISH_MULTIPLIERS)

get_mold_base_list(self) == catalog_list(self.CAD_MOLD_BASE_PRICES)

(***************************************************************************)
(* The simple pricing path, calculate_budget_from_stats.                   *)
(*                                                                         *)
(* Its discount label is int((1 - quantity_discount) * 100), where the     *)
(* truncation sees the representation error of the float.  A float is      *)
(* modelled here as [val, err]: the decimal val plus err units of 2^-53.   *)
(***************************************************************************)
RECURSIVE Pow2Mod(_, _)
Pow2Mod(k, d) == IF k = 0 THEN 1 % d ELSE (2 * Pow2Mod(k - 1, d)) % d

\* the double of a literal x in [1/2, 1), or of a whole number: x * 2^53 rounded to
\* the nearest integer (a tie cannot occur: a denominator with an odd factor
\* never leaves the remainder 1/2)
Double(x) ==
    IF x.den = 1 THEN [val |-> x, err |-> RInt(0)]
    ELSE LET r == (x.num * Pow2Mod(53, x.den)) % x.den
         IN  [val |-> x,
              err |-> IF 2 * r < x.den THEN R(-r, x.den) ELSE R(x.den - r, x.den)]

\* 1 - a for a double a in [1/2, 1]: the difference is a multiple of 2^-53 below 1,
\* hence a double, and no rounding takes place
DoubleOneMinus(a) == [val |-> RSub(RInt(1), a.val), err |-> RNeg(a.err)]

\* the largest power of two that is at most n (n >= 1)
RECURSIVE Binade(_)
Binade(n) == IF n < 2 THEN 1 ELSE 2 * Binade(n \div 2)

\* a * 100 for a double a whose decimal times 100 is a whole number between 1 and
\* 2^53: the exact product, rounded (half to even) to the doubles around it,
\* which lie 2 * Binade units of 2^-53 apart
DoubleTimes100(a) ==
    LET val   == RMul(a.val, RInt(100))
        exact == RMul(a.err, RInt(100))
        ulp   == IF val.num = 0 THEN 1
                 ELSE IF RLt(exact, RInt(0)) /\ Binade(val.num) = val.num
                      THEN val.num
                      ELSE 2 * Binade(val.num)
    IN  [val |-> val, err |-> RMul(Round(RDiv(exact, RInt(ulp)), 0), RInt(ulp))]

\* int(a): truncation of a non-negative double whose decimal is a whole number
DoubleInt(a) == IF RLt(a.err, RInt(0)) THEN a.val.num - 1 ELSE a.val.num

\* the materials and finishes tables of the simple path
materials ==
    ("H13" :> [price |-> R(85, 100), name |-> "Aco H13"]) @@
    ("P20" :> [price |-> R(65, 100), name |-> "Aco P20"]) @@
    ("718" :> [price |-> R(75, 100), name |-> "Aco 718"]) @@
    ("ALUMINUM" :> [price |-> R(45, 100), name |-> "Aluminio 7075"]) @@
    ("S7" :> [price |-> R(70, 100), name |-> "Aco S7"])

finishes ==
    ("machined" :> [multiplier |-> R(10, 10), name |-> "Maquinado"]) @@
    ("ground" :> [multiplier |-> R(13, 10), name |-> "Retificado"]) @@
    ("polished" :> [multiplier |-> R(15, 10), name |-> "Polido"]) @@
    ("textured" :> [multiplier |-> R(18, 10), name |-> "Texturizado"]) @@
    ("edm" :> [multiplier |-> R(22, 10), name |-> "Eletroerosao (EDM)"])

\* quantity_discount: the multiplier of the quantity tier
quantity_discount_of(quantity) ==
    IF quantity >= 100 THEN R(85, 100)
    ELSE IF quantity >= 50 THEN R(90, 100)
    ELSE IF quantity >= 10 THEN R(95, 100)
    ELSE RInt(1)

\* int((1 - quantity_discount) * 100), the number in the quantity_discount label
quantity_discount_label(quantity_discount) ==
    DoubleInt(DoubleTimes100(DoubleOneMinus(Double(quantity_discount))))

\* int(quantity / 10): truncation towards zero
tenth_of(quantity) == IF quantity >= 0 THEN quantity \div 10 ELSE -((-quantity) \div 10)

\* calculate_budget_from_stats
calculate_budget_from_stats(stats, material, finish, quantity) ==
    LET mat_config        == Get(materials, material, materials["P20"])
        fin_config        == Get(finishes, finish, finishes["machined"])
        material_cost     == RMul(stats.volume_cm3, mat_config.price)
        finish_cost       == RMul(material_cost, RSub(fin_config.multiplier, RInt(1)))
        setup_fee         == RInt(500)
        quantity_discount == quantity_discount_of(quantity.val)
        piece_cost        ==
            RMul(RAdd(RAdd(material_cost, finish_cost), setup_fee), quantity_discount)
        total             == RMul(piece_cost, RInt(quantity.val))
        production_time   ==
            IF tenth_of(quantity.val) + 3 > 5 THEN tenth_of(quantity.val) + 3 ELSE 5
    IN  IF quantity.kind # "int" THEN Raised("TypeError")
        ELSE [status |-> "ok",
              unit_price |-> Round(piece_cost, 2),
              total_price |-> Round(total, 2),
              currency |-> "EUR",
              material |-> mat_config.name,
              finish |-> fin_config.name,
              setup_fee |-> Round(RMul(setup_fee, quantity_discount), 2),
              material_cost |-> Round(RMul(material_cost, quantity_discount), 2),
              finish_cost |-> Round(RMul(finish_cost, quantity_discount), 2),
              quantity_discount |-> quantity_discount_label(quantity_discount),
              production_time_days |-> production_time,
              volume_cm3 |-> Round(stats.volume_cm3, 2),
              area_cm2 |-> Round(stats.area_cm2, 2)]

(***************************************************************************)
(* GeometryAnalyzer: complexity metrics and difficulty rating.             *)
(*                                                                         *)
(* A mesh is what trimesh reports of it: is_watertight, volume (signed),   *)
(* area, bounds (two corners) and, per face, the three edge lengths.       *)
(* complexity_error says that a computation inside _calculate_complexity   *)
(* raises on this mesh.                                                    *)
(***************************************************************************)
Max3(t) == IF t[1] >= t[2] /\ t[1] >= t[3] THEN t[1] ELSE IF t[2] >= t[3] THEN t[2] ELSE t[3]

Min3(t) == IF t[1] <= t[2] /\ t[1] <= t[3] THEN t[1] ELSE IF t[2] <= t[3] THEN t[2] ELSE t[3]

\* dimensions: the extents of the bounding box, with the largest and the smallest
dimensions_of(bounds) ==
    LET size == [i \in 1 .. 3 |-> bounds.hi[i] - bounds.lo[i]]
    IN  [width |-> RInt(size[1]), height |-> RInt(size[2]), depth |-> RInt(size[3]),
         max |-> RInt(Max3(size)), min |-> RInt(Min3(size))]

\* max(dimensions.values()) and min(dimensions.values())
max_dimension(dimensions) ==
    RMax(RMax(RMax(dimensions.width, dimensions.height),
              RMax(dimensions.depth, dimensions.max)), dimensions.min)

\* min_dimension with a plausible fault: the width is taken for the smallest extent
min_dimension_width(dimensions) == dimensions.width

min_dimension(dimensions) ==
    RMin(RMin(RMin(dimensions.width, dimensions.height),
              RMin(dimensions.depth, dimensions.max)), dimensions.min)

\* longest edge / shortest edge of a face, 1 for a face with a zero-length edge
aspect_ratio(edges) == IF Min3(edges) > 0 THEN R(Max3(edges), Min3(edges)) ELSE RInt(1)

RECURSIVE RSum(_)
RSum(seq) == IF seq = <<>> THEN RInt(0) ELSE RAdd(Head(seq), RSum(Tail(seq)))

\* np.mean(aspect_ratios) if aspect_ratios else 1
average_aspect_ratio(faces) ==
    IF faces = <<>> THEN RInt(1)
    ELSE RDiv(RSum([i \in 1 .. Len(faces) |-> aspect_ratio(faces[i])]), RInt(Len(faces)))

\* the weighted sum of the four metrics
complexity_sum(surface_volume_ratio, compactness, triangle_density, avg_aspect_ratio) ==
    RAdd(RAdd(RAdd(RMul(surface_volume_ratio, RInt(10)),
                   RMul(RSub(RInt(1), compactness), RInt(50))),
              RMul(triangle_density, R(1, 1000))),
         RMul(RSub(avg_aspect_ratio, RInt(1)), RInt(10)))

\* complexity_clamp with a plausible fault: the sum is not clamped
complexity_clamp_none(sum) == sum

\* complexity_score = min(100, sum)
complexity_clamp(sum) == RMin(RInt(100), sum)

\* _get_difficulty_rating
get_difficulty_rating(score) ==
    IF RLt(score, RInt(25)) THEN "Baixa"
    ELSE IF RLt(score, RInt(50)) THEN "Media"
    ELSE IF RLt(score, RInt(75)) THEN "Alta"
    ELSE "Muito Alta"

\* complexity_fallback with a plausible fault: the rating is the one
\* _get_difficulty_rating gives the score 50
complexity_fallback_rated_by_score ==
    [surface_volume_ratio |-> RInt(0), compactness |-> RInt(1),
     triangle_density |-> RInt(0), average_aspect_ratio |-> RInt(1),
     complexity_score |-> RInt(50), difficulty_rating |-> "Alta"]

\* the record _calculate_complexity returns when a computation in it raised
complexity_fallback ==
    [surface_volume_ratio |-> RInt(0), compactness |-> RInt(1),
     triangle_density |-> RInt(0), average_aspect_ratio |-> RInt(1),
     complexity_score |-> RInt(50), difficulty_rating |-> "Media"]

\* the metrics of _calculate_complexity before rounding, and the clamped score
complexity_values(m, volume, area, dimensions) ==
    LET surface_volume_ratio ==
            IF RGt(volume, RInt(0)) THEN RDiv(area, volume) ELSE RInt(0)
        max_dim          == max_dimension(dimensions)
        min_dim          == min_dimension(dimensions)
        compactness      ==
            IF RGt(max_dim, RInt(0)) THEN RDiv(min_dim, max_dim) ELSE RInt(0)
        triangle_density ==
            IF RGt(area, RInt(0)) THEN RDiv(RInt(Len(m.faces)), area) ELSE RInt(0)
        avg_aspect_ratio == average_aspect_ratio(m.faces)
        sum              == complexity_sum(surface_volume_ratio, compactness,
                                           triangle_density, avg_aspect_ratio)
    IN  [surface_volume_ratio |-> surface_volume_ratio, compactness |-> compactness,
         triangle_density |-> triangle_density, average_aspect_ratio |-> avg_aspect_ratio,
         sum |-> sum, complexity_score |-> complexity_clamp(sum)]

\* _calculate_complexity: the rounded metrics, the rating of the unrounded score
calculate_complexity(m, volume, area, dimensions) ==
    IF m.complexity_error THEN complexity_fallback
    ELSE LET v == complexity_values(m, volume, area, dimensions)
         IN  [surface_volume_ratio |-> Round(v.surface_volume_ratio, 4),
              compactness          |-> Round(v.compactness, 4),
              triangle_density     |-> Round(v.triangle_density, 4),
              average_aspect_ratio |-> Round(v.average_aspect_ratio, 4),
              complexity_score     |-> Round(v.complexity_score, 2),
              difficulty_rating    |-> get_difficulty_rating(v.complexity_score)]

\* the volume analyze reports: 0 for a mesh that is not watertight
reported_volume(m) == IF m.is_watertight THEN m.volume ELSE RInt(0)

identity_tensor == << <<1, 0, 0>>, <<0, 1, 0>>, <<0, 0, 1>> >>

zero_tensor == << <<0, 0, 0>>, <<0, 0, 0>>, <<0, 0, 0>> >>

\* _calculate_inertia with a plausible fault: the mesh's tensor is used whatever the volume
calculate_inertia_always_delegates(m, volume) ==
    IF "inertia" \in m.failing THEN zero_tensor ELSE m.moment_inertia

\* _calculate_inertia: the mesh's moment of inertia when volume > 0, the identity
\* otherwise, and the zero tensor when reading the moment of inertia raises
calculate_inertia(m, volume) ==
    IF RGt(volume, RInt(0))
    THEN IF "inertia" \in m.failing THEN zero_tensor ELSE m.moment_inertia
    ELSE identity_tensor

\* np.isclose(angle, 90, atol=1): |angle - 90| <= atol + rtol * 90, rtol = 1e-5
is_close_to_90(angle) ==
    LET d == RSub(angle, RInt(90))
    IN  RLe(IF RLt(d, RInt(0)) THEN RNeg(d) ELSE d, R(10009, 10000))

\* the class _analyze_face_types counts a face in, from its three angles
face_type(angles) ==
    IF \E i \in 1 .. 3 : is_close_to_90(angles[i]) THEN "right"
    ELSE IF \A i \in 1 .. 3 : RLt(angles[i], RInt(90)) THEN "acute"
    ELSE "obtuse"

\* _analyze_face_types: the faces of each class, all zero when the angles cannot be read
analyze_face_types(m) ==
    IF "face_types" \in m.failing THEN [acute |-> 0, right |-> 0, obtuse |-> 0]
    ELSE LET count(type) ==
                 Cardinality({i \in 1 .. Len(m.face_angles) :
                                  face_type(m.face_angles[i]) = type})
         IN  [acute |-> count("acute"), right |-> count("right"),
              obtuse |-> count("obtuse")]

\* _analyze_thickness: estimates from the bounding box, the error text when it raises
analyze_thickness(m, bounds) ==
    IF "thickness" \in m.failing THEN [error |-> "Exception"]
    ELSE LET size == [i \in 1 .. 3 |-> bounds.hi[i] - bounds.lo[i]]
         IN  [estimated_min_thickness |-> Round(R(Min3(size), 10), 2),
              estimated_max_thickness |-> Round(R(Max3(size), 2), 2)]

RECURSIVE RMaxOf(_)
RMaxOf(seq) == IF Len(seq) = 1 THEN seq[1] ELSE RMax(Head(seq), RMaxOf(Tail(seq)))

\* _analyze_curvature over the per-vertex curvature estimates of the mesh: all
\* zero when no vertex has three neighbours, the error text when it raises
analyze_curvature(m) ==
    IF "curvature" \in m.failing THEN [error |-> "Exception"]
    ELSE IF m.curvatures = <<>>
         THEN [mean_curvature |-> RInt(0), max_curvature |-> RInt(0),
               complex_curvature_regions |-> 0]
         ELSE LET mean == RDiv(RSum(m.curvatures), RInt(Len(m.curvatures)))
              IN  [mean_curvature |-> Round(mean, 4),
                   max_curvature |-> Round(RMaxOf(m.curvatures), 4),
                   complex_curvature_regions |->
                       Cardinality({i \in 1 .. Len(m.curvatures) :
                                        RGt(m.curvatures[i], RMul(mean, RInt(2)))})]

\* _recommend_material, by the reported score
recommend_material(complexity) ==
    LET score == complexity.complexity_score
    IN  IF RGt(score, RInt(75)) THEN "H13"
        ELSE IF RGt(score, RInt(50)) THEN "P20"
        ELSE "718"

\* get_process_recommendations with a plausible fault: 5-axis only above score 40
get_process_recommendations_strict(m, complexity) ==
    LET score == complexity.complexity_score
    IN  (IF RLt(score, RInt(40)) THEN <<"CNC 3-eixos">> ELSE <<>>)
        \o (IF RGt(score, RInt(40)) THEN <<"CNC 5-eixos">> ELSE <<>>)
        \o (IF RGt(complexity.average_aspect_ratio, RInt(3)) THEN <<"EDM">> ELSE <<>>)
        \o (IF RGt(score, RInt(60)) THEN <<"DMLS">> ELSE <<>>)

\* _get_process_recommendations, by the reported score and aspect ratio
get_process_recommendations(m, complexity) ==
    LET score == complexity.complexity_score
    IN  (IF RLt(score, RInt(40)) THEN <<"CNC 3-eixos">> ELSE <<>>)
        \o (IF RGe(score, RInt(40)) THEN <<"CNC 5-eixos">> ELSE <<>>)
        \o (IF RGt(complexity.average_aspect_ratio, RInt(3)) THEN <<"EDM">> ELSE <<>>)
        \o (IF RGt(score, RInt(60)) THEN <<"DMLS">> ELSE <<>>)

\* _analyze_manufacturing (difficulty, hours from the mesh's own volume, material
\* and processes), the error text when it raises
analyze_manufacturing(m, complexity) ==
    IF "manufacturing" \in m.failing THEN [error |-> "Exception"]
    ELSE LET base_time         == RMul(m.volume, R(1, 100))
             complexity_factor == RDiv(complexity.complexity_score, RInt(50))
         IN  [machining_difficulty |-> complexity.difficulty_rating,
              estimated_machining_hours |-> Round(RMul(base_time, complexity_factor), 1),
              material_recommendation |-> recommend_material(complexity),
              process_recommendations |-> get_process_recommendations(m, complexity)]

\* GeometryAnalyzer.analyze.  A mesh without faces has no bounds (mesh.bounds is
\* None), so that bounds[1][0] raises a TypeError, which analyze logs and re-raises.
analyze(m) ==
    IF m.bounds = None THEN Raised("TypeError")
    ELSE
    LET volume     == reported_volume(m)
        area       == m.area
        bounds     == m.bounds[1]
        dimensions == dimensions_of(bounds)
        complexity_metrics == calculate_complexity(m, volume, area, dimensions)
    IN  [status |-> "ok",
         volume |-> volume,
         area |-> area,
         dimensions |-> dimensions,
         inertia_tensor |-> calculate_inertia(m, volume),
         mesh_info |-> [vertex_count |-> m.vertex_count,
                        face_count |-> Len(m.faces),
                        face_types |-> analyze_face_types(m),
                        is_watertight |-> m.is_watertight],
         complexity_metrics |-> complexity_metrics,
         thickness_analysis |-> analyze_thickness(m, bounds),
         curvature |-> analyze_curvature(m),
         manufacturing_analysis |-> analyze_manufacturing(m, complexity_metrics)]

(***************************************************************************)
(* analyze in two halves, as a thread runs it on a shared analyzer self:   *)
(* first the basic statistics (local variables of the call), then the      *)
(* derived metrics and the result.                                         *)
(***************************************************************************)
\* volume, area and dimensions of a mesh, or the exception of a mesh without bounds
basic_statistics(m) ==
    IF m.bounds = None THEN Raised("TypeError")
    ELSE [status |-> "ok", volume |-> reported_volume(m), area |-> m.area,
          bounds |-> m.bounds[1], dimensions |-> dimensions_of(m.bounds[1])]

\* analyze_basic with a plausible fault: the basic statistics are kept on the
\* analyzer and those of the call before are used
analyze_basic_cached(self, m) ==
    [self   |-> [initialized |-> self.initialized, last |-> basic_statistics(m)],
     locals |-> IF "last" \in DOMAIN self /\ basic_statistics(m).status = "ok"
                THEN self.last ELSE basic_statistics(m)]

\* the first half of analyze: volume, area, bounds, dimensions
analyze_basic(self, m) == [self |-> self, locals |-> basic_statistics(m)]

\* the second half of analyze: the derived metrics and the statistics bundle
analyze_derived(self, m, locals) ==
    LET complexity_metrics ==
            calculate_complexity(m, locals.volume, locals.area, locals.dimensions)
    IN  [self   |-> self,
         result |->
            [status |-> "ok",
             volume |-> locals.volume,
             area |-> locals.area,
             dimensions |-> locals.dimensions,
             inertia_tensor |-> calculate_inertia(m, locals.volume),
             mesh_info |-> [vertex_count |-> m.vertex_count,
                            face_count |-> Len(m.faces),
                            face_types |-> analyze_face_types(m),
                            is_watertight |-> m.is_watertight],
             complexity_metrics |-> complexity_metrics,
             thickness_analysis |-> analyze_thickness(m, locals.bounds),
             curvature |-> analyze_curvature(m),
             manufacturing_analysis |-> analyze_manufacturing(m, complexity_metrics)]]

(***************************************************************************)
(* The pricing service as a state machine: req is the pricing call being   *)
(* served and res what calculate returns for it (or that it raised).  The  *)
(* service keeps nothing of a call once its result is handed to the caller.*)
(***************************************************************************)
MaxQuantity == 101

NoCall == [status |-> "none"]

\* quantities a caller may pass: around every tier, non-positive, and no number
Quantities == {IntQ(n) : n \in -1 .. MaxQuantity} \cup {StrQ}

Volumes == {0, 1, 1000}

Scores == {0, 35, 100}

\* statistics bundles, with and without the optional fields
StatsInputs ==
    {[volume |-> RInt(v), complexity_metrics |-> [complexity_score |-> RInt(s)]] :
        v \in Volumes, s \in Scores}
    \cup {[volume |-> RInt(v)] : v \in Volumes}
    \cup {[complexity_metrics |-> [complexity_score |-> RInt(s)]] : s \in Scores}
    \cup {EmptyDict}

Materials == {"P20", "H13", "UNOBTAINIUM"}

Finishes == {"machined", "edm", "mirror"}

MoldBaseConfigs == {None, Some([conformalCooling |-> TRUE])}

CadBaseConfigs == {None}

Request(stats, material, finish, quantity, mold_base_config, cad_base_config) ==
    [status |-> "called", stats |-> stats, material |-> material, finish |-> finish,
     quantity |-> quantity, mold_base_config |-> mold_base_config,
     cad_base_config |-> cad_base_config]

\* calculate applied to the arguments of a recorded request
calculate_request(r) ==
    calculate(r.stats, r.material, r.finish, r.quantity, r.mold_base_config,
              r.cad_base_config)

\* the threads (requests in progress) that share the two service objects
NumThreads == 2

Threads == 1 .. NumThreads

\* a thread that runs no call
Idle == [op |-> "idle"]

\* GeometryAnalyzer.__init__: the only attribute of an analyzer
GeometryAnalyzer_init == [initialized |-> TRUE]

\* a BudgetCalculator after __init__: its attribute and the class-level catalogs
BudgetCalculator_init ==
    [initialized |-> TRUE,
     MATERIAL_PRICES |-> MATERIAL_PRICES,
     FINISH_MULTIPLIERS |-> FINISH_MULTIPLIERS,
     BASE_FIXED_FEE |-> BASE_FIXED_FEE,
     MOLD_BASE_EXTRAS |-> MOLD_BASE_EXTRAS,
     CAD_MOLD_BASE_PRICES |-> CAD_MOLD_BASE_PRICES,
     PLATE_MATERIAL_ADDONS |-> PLATE_MATERIAL_ADDONS,
     HOURLY_RATES |-> HOURLY_RATES]

(***************************************************************************)
(* Importing a file: StepProcessor.process and the application's           *)
(* load_geometry.                                                          *)
(*                                                                         *)
(* A file is what the loaders make of it: what cadquery and trimesh.load   *)
(* do with it, whether the OpenCASCADE modules load and read it, and        *)
(* whether the installed trimesh has creation.torusknot.  A mesh is told    *)
(* by its origin: the file, a torus knot, a box, or none (None).            *)
(***************************************************************************)
NoMesh == [origin |-> "none"]

\* the mesh read from the file
FileMesh(vertices) == [origin |-> "file", vertices |-> vertices]

\* StepProcessor.__init__ with _try_import_occ
StepProcessor_init(occ_importable) ==
    [status |-> "constructed", initialized |-> FALSE,
     use_fallback |-> ~occ_importable, occ_available |-> occ_importable]

\* StepProcessor.initialize with _init_occ: a failing module import switches to
\* the fallback
initialize(self, file) ==
    IF self.occ_available /\ ~file.occ_modules_load
    THEN [self EXCEPT !.occ_available = FALSE, !.use_fallback = TRUE, !.initialized = TRUE]
    ELSE [self EXCEPT !.initialized = TRUE]

\* StepProcessor._create_fallback_geometry: a torus knot of radius 40, or the
\* AttributeError of a trimesh without creation.torusknot
create_fallback_geometry_of_processor(file) ==
    IF file.torusknot_available
    THEN [status |-> "ok", mesh |-> [origin |-> "torusknot", radius |-> RInt(40)],
          warned |-> FALSE]
    ELSE Raised("AttributeError")

\* StepProcessor._process_fallback: the Trimesh that trimesh.load gives, the first
\* Trimesh of a Scene, None for another object, the placeholder when it raises
process_fallback(file) ==
    CASE file.trimesh = "mesh"  -> [status |-> "ok", mesh |-> FileMesh("some"), warned |-> FALSE]
      [] file.trimesh = "empty" -> [status |-> "ok", mesh |-> FileMesh("none"), warned |-> FALSE]
      [] file.trimesh = "scene" -> [status |-> "ok", mesh |-> FileMesh("some"), warned |-> FALSE]
      [] file.trimesh = "other" -> [status |-> "ok", mesh |-> NoMesh, warned |-> FALSE]
      [] OTHER                  -> create_fallback_geometry_of_processor(file)

\* StepProcessor._process_with_occ: no triangulation is extracted, so None; the
\* fallback when OpenCASCADE raises
process_with_occ(file) ==
    IF file.occ_reads THEN [status |-> "ok", mesh |-> NoMesh, warned |-> FALSE]
    ELSE process_fallback(file)

\* StepProcessor.process
process(self, file) ==
    LET ready == IF ~self.initialized THEN initialize(self, file) ELSE self
    IN  [self   |-> ready,
         result |-> IF ready.use_fallback THEN process_fallback(file)
                    ELSE process_with_occ(file)]

\* min(max(file_size / 100000, 0.5), 2.0)
fallback_scale(file_size) == RMin(RMax(R(file_size, 100000), R(1, 2)), RInt(2))

\* the application's create_fallback_geometry: a torus knot scaled by the file
\* size, a box when the torus knot cannot be made
create_fallback_geometry(file) ==
    IF file.torusknot_available
    THEN [origin |-> "torusknot", radius |-> RMul(RInt(40), fallback_scale(file.size))]
    ELSE [origin |-> "box", radius |-> RMul(RInt(80), fallback_scale(file.size))]

\* load_step_file: cadquery, then trimesh, then the demonstration geometry
load_step_file(file) ==
    IF file.cadquery = "mesh" THEN FileMesh("some")
    ELSE IF file.trimesh = "mesh" THEN FileMesh("some")
    ELSE create_fallback_geometry(file)

\* load_geometry: the mesh of the file, and the demonstration geometry when the
\* loader gives nothing or an empty mesh (silently) or raises (with a warning)
load_geometry(file) ==
    LET raised  == [status |-> "ok", mesh |-> create_fallback_geometry(file),
                    filename |-> file.name, warned |-> TRUE]
        mesh_of == IF file.ext = "step" THEN load_step_file(file)
                   ELSE IF file.trimesh = "empty" THEN FileMesh("none")
                   ELSE FileMesh("some")
    IN  IF file.ext # "step" /\ file.trimesh \in {"raises", "other"} THEN raised
        ELSE [status |-> "ok",
              mesh |-> IF mesh_of.origin = "file" /\ mesh_of.vertices = "none"
                       THEN create_fallback_geometry(file) ELSE mesh_of,
              filename |-> file.name, warned |-> FALSE]

Init ==
    /\ req = NoCall
    /\ res = NoCall
    /\ mesh = NoCall
    /\ geo = NoCall
    /\ sreq = NoCall
    /\ sres = NoCall
    /\ analyzer = GeometryAnalyzer_init
    /\ calculator = BudgetCalculator_init
    /\ threads = [t \in Threads |-> Idle]
    /\ seen = {}
    /\ processor = NoCall
    /\ upload = NoCall
    /\ loaded = NoCall

\* a caller submits a pricing request
Call ==
    /\ req = NoCall
    /\ \E stats \in StatsInputs, material \in Materials, finish \in Finishes,
          quantity \in Quantities, mold_base_config \in MoldBaseConfigs,
          cad_base_config \in CadBaseConfigs :
           req' = Request(stats, material, finish, quantity, mold_base_config,
                          cad_base_config)
    /\ UNCHANGED <<res, mesh, geo>>
    /\ UNCHANGED quote_vars
    /\ UNCHANGED shared_vars
    /\ UNCHANGED import_vars

\* BudgetCalculator.calculate runs on the submitted request
Calculate ==
    /\ req # NoCall
    /\ res = NoCall
    /\ res' = calculate_request(req)
    /\ UNCHANGED <<req, mesh, geo>>
    /\ UNCHANGED quote_vars
    /\ UNCHANGED shared_vars
    /\ UNCHANGED import_vars

\* the caller takes the result (or the exception); the call is over
Return ==
    /\ res # NoCall
    /\ req' = NoCall
    /\ res' = NoCall
    /\ UNCHANGED <<mesh, geo>>
    /\ UNCHANGED quote_vars
    /\ UNCHANGED shared_vars
    /\ UNCHANGED import_vars

Next == Call \/ Calculate \/ Return

Spec == Init /\ [][Next]_vars

(***************************************************************************)
(* The pricing service called with mold-base configurations and with       *)
(* complexity scores around the rate thresholds.                           *)
(***************************************************************************)
\* legacy configs: none, empty, without a recognized key, plates, extras
ConfiguredMoldBases ==
    {None,
     Some(EmptyDict),
     Some([cavities |-> 2]),
     Some([plateWidth |-> 200, plateLength |-> 300]),
     Some([plateWidth |-> 250, plateLength |-> 300]),
     Some([hotRunner |-> TRUE, conformalCooling |-> TRUE, doubleExtraction |-> TRUE]),
     Some([plateWidth |-> 396, hotRunner |-> FALSE, conformalCooling |-> TRUE]),
     Some([hotRunner |-> TRUE, conformalCooling |-> FALSE])}

\* CAD-catalog configs: none, empty, without a recognized key, catalog entries
\* with extras, unknown supplier and plate material
ConfiguredCadBases ==
    {None,
     Some(EmptyDict),
     Some([colour |-> "red"]),
     Some([supplier |-> "DME Premium", plateMaterial |-> "Aco 1.2344 (H13)",
           insulationPlates |-> TRUE, liftingHoles |-> TRUE]),
     Some([supplier |-> "FUTABA Standard", plateMaterial |-> "Aluminio 7075",
           insulationPlates |-> FALSE]),
     Some([supplier |-> "ACME", plateMaterial |-> "Wood", liftingHoles |-> TRUE])}

\* complexity scores at, below and above 20 (factor 0.4), 35 (factor 0.7) and 40
\* (factor 0.8)
ConfiguredScores ==
    {RInt(0), RInt(19), RInt(20), R(41, 2), RInt(21), RInt(34), RInt(35), R(71, 2),
     RInt(36), RInt(40), RInt(41), RInt(50), RInt(100)}

ConfiguredStats ==
    {[volume |-> RInt(v), complexity_metrics |-> [complexity_score |-> score]] :
        v \in {1000}, score \in ConfiguredScores}
    \cup {[complexity_metrics |-> [complexity_score |-> score]] : score \in ConfiguredScores}
    \cup {[volume |-> RInt(1000)], EmptyDict}

\* a caller submits a pricing request with configurations
CallConfigured ==
    /\ req = NoCall
    /\ \E stats \in ConfiguredStats, finish \in {"machined", "edm"},
          quantity \in {IntQ(1), IntQ(10)},
          mold_base_config \in ConfiguredMoldBases,
          cad_base_config \in ConfiguredCadBases :
           req' = Request(stats, "P20", finish, quantity, mold_base_config,
                          cad_base_config)
    /\ UNCHANGED <<res, mesh, geo>>
    /\ UNCHANGED quote_vars
    /\ UNCHANGED shared_vars
    /\ UNCHANGED import_vars

NextConfigured == CallConfigured \/ Calculate \/ Return

SpecConfigured == Init /\ [][NextConfigured]_vars

(***************************************************************************)
(* Both pricing paths asked about the same part and quantity: sreq is the  *)
(* call to calculate_budget_from_stats and sres its result.                *)
(***************************************************************************)
SimpleRequest(stats, material, finish, quantity) ==
    [status |-> "called", stats |-> stats, material |-> material, finish |-> finish,
     quantity |-> quantity]

\* a caller asks both paths for a price of the same part, material, finish and quantity
CallBothPaths ==
    /\ req = NoCall
    /\ sreq = NoCall
    /\ \E volume \in {0, 1000}, material \in {"P20", "UNOBTAINIUM"},
          finish \in {"machined", "edm"}, quantity \in Quantities :
           /\ req' = Request([volume |-> RInt(volume)], material, finish, quantity,
                             None, None)
           /\ sreq' = SimpleRequest([volume_cm3 |-> RInt(volume), area_cm2 |-> RInt(600)],
                                    material, finish, quantity)
    /\ UNCHANGED <<res, sres, mesh, geo>>
    /\ UNCHANGED shared_vars
    /\ UNCHANGED import_vars

\* calculate_budget_from_stats runs on the submitted request
CalculateFromStats ==
    /\ sreq # NoCall
    /\ sres = NoCall
    /\ sres' = calculate_budget_from_stats(sreq.stats, sreq.material, sreq.finish,
                                           sreq.quantity)
    /\ UNCHANGED <<sreq, req, res, mesh, geo>>
    /\ UNCHANGED shared_vars
    /\ UNCHANGED import_vars

\* the caller takes both results; the calls are over
ReturnBothPaths ==
    /\ res # NoCall
    /\ sres # NoCall
    /\ req' = NoCall
    /\ res' = NoCall
    /\ sreq' = NoCall
    /\ sres' = NoCall
    /\ UNCHANGED <<mesh, geo>>
    /\ UNCHANGED shared_vars
    /\ UNCHANGED import_vars

NextPaths == CallBothPaths \/ Calculate \/ CalculateFromStats \/ ReturnBothPaths

SpecPaths == Init /\ [][NextPaths]_vars

(***************************************************************************)
(* The analysis service: mesh is the mesh being analysed and geo what      *)
(* analyze returns for it.                                                 *)
(***************************************************************************)
MeshVolumes == {RInt(-8), RInt(0), RInt(8), RInt(1000)}

MeshAreas == {RInt(0), RInt(10), RInt(600)}

\* a cube, a half-height box, a flat sheet, a point, a box with compactness 5/8,
\* a box with compactness 1/3
MeshBounds ==
    {[lo |-> <<0, 0, 0>>, hi |-> <<10, 10, 10>>],
     [lo |-> <<0, 0, 0>>, hi |-> <<3, 3, 1>>],
     [lo |-> <<-1, -1, 0>>, hi |-> <<1, 1, 1>>],
     [lo |-> <<0, 0, 0>>, hi |-> <<10, 10, 0>>],
     [lo |-> <<3, 3, 3>>, hi |-> <<3, 3, 3>>],
     [lo |-> <<0, 0, 0>>, hi |-> <<8, 8, 5>>]}

\* equilateral faces, a 3-4-5 face among them, a face with a zero-length edge,
\* one slim face, needles, and single faces of aspect ratio 2, 3 and 5
MeshFaces ==
    {<< <<1, 1, 1>>, <<2, 2, 2>> >>,
     << <<1, 2, 2>> >>,
     << <<1, 3, 3>> >>,
     << <<1, 5, 5>> >>,
     << <<3, 4, 5>>, <<1, 1, 1>> >>,
     << <<0, 2, 2>> >>,
     << <<4000, 5000, 6499>> >>,
     << <<1, 20, 20>>, <<1, 20, 20>> >>}

\* mesh.face_angles of a face with these edges: its interior angles in radians
\* (to 3 decimals), as trimesh reports them
angles_of_face(edges) ==
    CASE edges = <<3, 4, 5>>          -> <<R(644, 1000), R(927, 1000), R(1571, 1000)>>
      [] edges = <<0, 2, 2>>          -> <<R(1571, 1000), R(1571, 1000), RInt(0)>>
      [] edges = <<4000, 5000, 6499>> -> <<R(662, 1000), R(878, 1000), R(1602, 1000)>>
      [] edges = <<1, 20, 20>>        -> <<R(50, 1000), R(1546, 1000), R(1546, 1000)>>
      [] edges = <<1, 5, 5>>          -> <<R(200, 1000), R(1471, 1000), R(1471, 1000)>>
      [] edges = <<1, 2, 2>>          -> <<R(505, 1000), R(1318, 1000), R(1318, 1000)>>
      [] edges = <<1, 3, 3>>          -> <<R(335, 1000), R(1403, 1000), R(1403, 1000)>>
      [] OTHER                        -> <<R(1047, 1000), R(1047, 1000), R(1047, 1000)>>

\* the derived metrics whose computation may raise on a mesh (complexity has its
\* own flag, complexity_error)
Metrics == {"inertia", "face_types", "thickness", "curvature", "manufacturing"}

\* none fails, one fails, all fail
Failures == {{}} \cup {{x} : x \in Metrics} \cup {Metrics}

\* mesh.moment_inertia of the meshes below
MomentInertia == << <<2, 0, 0>>, <<0, 2, 0>>, <<0, 0, 3>> >>

\* per-vertex curvature estimates: no vertex with three neighbours, or two of them
MeshCurvatures == {<< >>, <<RInt(0), RInt(3)>>}

\* a mesh without faces (with or without vertices): no bounds, no area, no volume
EmptyMeshes ==
    {[is_watertight |-> FALSE, volume |-> RInt(0), area |-> RInt(0), bounds |-> None,
      faces |-> << >>, face_angles |-> << >>, vertex_count |-> n,
      moment_inertia |-> MomentInertia, curvatures |-> << >>,
      complexity_error |-> e, failing |-> x] :
        n \in {0, 8}, e \in BOOLEAN, x \in Failures}

Meshes ==
    {[is_watertight |-> w, volume |-> v, area |-> a, bounds |-> Some(b),
      faces |-> f, face_angles |-> [i \in 1 .. Len(f) |-> angles_of_face(f[i])],
      vertex_count |-> 8, moment_inertia |-> MomentInertia, curvatures |-> c,
      complexity_error |-> e, failing |-> x] :
        w \in BOOLEAN, v \in MeshVolumes, a \in MeshAreas, b \in MeshBounds,
        f \in MeshFaces, c \in MeshCurvatures, e \in BOOLEAN, x \in Failures}
    \cup EmptyMeshes

\* a caller submits a mesh
Submit ==
    /\ mesh = NoCall
    /\ \E m \in Meshes : mesh' = [status |-> "submitted", m |-> m]
    /\ UNCHANGED <<geo, req, res>>
    /\ UNCHANGED quote_vars
    /\ UNCHANGED shared_vars
    /\ UNCHANGED import_vars

\* GeometryAnalyzer.analyze runs on the submitted mesh
Analyze ==
    /\ mesh # NoCall
    /\ geo = NoCall
    /\ geo' = analyze(mesh.m)
    /\ UNCHANGED <<mesh, req, res>>
    /\ UNCHANGED quote_vars
    /\ UNCHANGED shared_vars
    /\ UNCHANGED import_vars

\* the caller takes the statistics; the call is over
ReturnStatistics ==
    /\ geo # NoCall
    /\ mesh' = NoCall
    /\ geo' = NoCall
    /\ UNCHANGED <<req, res>>
    /\ UNCHANGED quote_vars
    /\ UNCHANGED shared_vars
    /\ UNCHANGED import_vars

NextGeometry == Submit \/ Analyze \/ ReturnStatistics

SpecGeometry == Init /\ [][NextGeometry]_vars

(***************************************************************************)
(* Concurrent requests on one shared GeometryAnalyzer and one shared       *)
(* BudgetCalculator.  threads[t] is the call thread t runs: its operation, *)
(* the arguments as passed and as they are now, its local variables, its   *)
(* result.  seen collects the statistics analyze has returned, per mesh.   *)
(***************************************************************************)
\* a closed box, an open sheet with a failing metric, a mesh without faces
SharedMeshes ==
    {[is_watertight |-> TRUE, volume |-> RInt(8), area |-> RInt(600),
      bounds |-> Some([lo |-> <<0, 0, 0>>, hi |-> <<8, 8, 5>>]),
      faces |-> << <<3, 4, 5>>, <<1, 1, 1>> >>,
      face_angles |-> <<angles_of_face(<<3, 4, 5>>), angles_of_face(<<1, 1, 1>>)>>,
      vertex_count |-> 8, moment_inertia |-> MomentInertia,
      curvatures |-> <<RInt(0), RInt(3)>>, complexity_error |-> FALSE, failing |-> {}],
     [is_watertight |-> FALSE, volume |-> RInt(1000), area |-> RInt(10),
      bounds |-> Some([lo |-> <<0, 0, 0>>, hi |-> <<10, 10, 0>>]),
      faces |-> << <<1, 20, 20>>, <<1, 20, 20>> >>,
      face_angles |-> <<angles_of_face(<<1, 20, 20>>), angles_of_face(<<1, 20, 20>>)>>,
      vertex_count |-> 8, moment_inertia |-> MomentInertia,
      curvatures |-> << >>, complexity_error |-> FALSE, failing |-> {"thickness"}],
     [is_watertight |-> FALSE, volume |-> RInt(0), area |-> RInt(0), bounds |-> None,
      faces |-> << >>, face_angles |-> << >>, vertex_count |-> 0,
      moment_inertia |-> MomentInertia, curvatures |-> << >>,
      complexity_error |-> FALSE, failing |-> {}]}

\* a catalog request, a request with unknown keys and a config, a request that raises
SharedRequests ==
    {Request([volume |-> RInt(1000), complexity_metrics |-> [complexity_score |-> RInt(35)]],
             "P20", "machined", IntQ(10), None, None),
     Request(EmptyDict, "UNOBTAINIUM", "mirror", IntQ(100),
             Some([conformalCooling |-> TRUE]), Some([supplier |-> "DME Premium"])),
     Request([volume |-> RInt(1)], "H13", "edm", StrQ, None, None)}

Listings == {"get_material_list", "get_finish_list", "get_mold_base_list"}

\* the frame of a call that has just been entered
Frame(op, args) ==
    [op |-> op, pc |-> "called", passed |-> args, args |-> args, locals |-> NoCall,
     result |-> NoCall]

\* thread t enters analyze, calculate or a catalog listing
Enter(t) ==
    /\ threads[t] = Idle
    /\ \/ \E m \in SharedMeshes : threads' = [threads EXCEPT ![t] = Frame("analyze", m)]
       \/ \E r \in SharedRequests : threads' = [threads EXCEPT ![t] = Frame("calculate", r)]
       \/ \E l \in Listings : threads' = [threads EXCEPT ![t] = Frame(l, NoCall)]
    /\ UNCHANGED <<analyzer, calculator, seen, req, res, mesh, geo, sreq, sres>>
    /\ UNCHANGED import_vars

\* thread t runs the first half of analyze; a mesh without bounds ends the call
AnalyzeBasic(t) ==
    /\ threads[t].op = "analyze"
    /\ threads[t].pc = "called"
    /\ LET step == analyze_basic(analyzer, threads[t].args)
       IN  /\ analyzer' = step.self
           /\ threads' = [threads EXCEPT ![t] =
                  IF step.locals.status = "ok"
                  THEN [@ EXCEPT !.pc = "basic", !.locals = step.locals]
                  ELSE [@ EXCEPT !.pc = "done", !.result = step.locals]]
    /\ UNCHANGED <<calculator, seen, req, res, mesh, geo, sreq, sres>>
    /\ UNCHANGED import_vars

\* thread t runs the second half of analyze
AnalyzeDerived(t) ==
    /\ threads[t].op = "analyze"
    /\ threads[t].pc = "basic"
    /\ LET step == analyze_derived(analyzer, threads[t].args, threads[t].locals)
       IN  /\ analyzer' = step.self
           /\ threads' = [threads EXCEPT ![t] = [@ EXCEPT !.pc = "done",
                                                        !.result = step.result]]
    /\ UNCHANGED <<calculator, seen, req, res, mesh, geo, sreq, sres>>
    /\ UNCHANGED import_vars

\* thread t runs the first half of calculate
CalculateCosts(t) ==
    /\ threads[t].op = "calculate"
    /\ threads[t].pc = "called"
    /\ LET step == calculate_costs(calculator, threads[t].args)
       IN  /\ calculator' = step.self
           /\ threads' = [threads EXCEPT ![t] = [@ EXCEPT !.pc = "costs",
                                                        !.args = step.args,
                                                        !.locals = step.locals]]
    /\ UNCHANGED <<analyzer, seen, req, res, mesh, geo, sreq, sres>>
    /\ UNCHANGED import_vars

\* thread t runs the second half of calculate
CalculateTotal(t) ==
    /\ threads[t].op = "calculate"
    /\ threads[t].pc = "costs"
    /\ LET step == calculate_total(calculator, threads[t].args, threads[t].locals)
       IN  /\ calculator' = step.self
           /\ threads' = [threads EXCEPT ![t] = [@ EXCEPT !.pc = "done",
                                                        !.args = step.args,
                                                        !.result = step.result]]
    /\ UNCHANGED <<analyzer, seen, req, res, mesh, geo, sreq, sres>>
    /\ UNCHANGED import_vars

\* the listing a thread asked for, read from the calculator, as the value the
\* call returns
listing_of(self, op) ==
    [status |-> "ok",
     value  |-> CASE op = "get_material_list" -> get_material_list(self)
                  [] op = "get_finish_list"   -> get_finish_list(self)
                  [] OTHER                    -> get_mold_base_list(self)]

\* thread t runs a catalog listing
List(t) ==
    /\ threads[t].op \in Listings
    /\ threads[t].pc = "called"
    /\ threads' = [threads EXCEPT ![t] = [@ EXCEPT !.pc = "done",
                       !.result = listing_of(calculator, threads[t].op)]]
    /\ UNCHANGED <<analyzer, calculator, seen, req, res, mesh, geo, sreq, sres>>
    /\ UNCHANGED import_vars

\* the call of thread t returns (or raises) to its caller
Leave(t) ==
    /\ threads[t] # Idle
    /\ threads[t].pc = "done"
    /\ seen' = IF threads[t].op = "analyze"
               THEN seen \cup {<<threads[t].passed, threads[t].result>>}
               ELSE seen
    /\ threads' = [threads EXCEPT ![t] = Idle]
    /\ UNCHANGED <<analyzer, calculator, req, res, mesh, geo, sreq, sres>>
    /\ UNCHANGED import_vars

NextShared ==
    \E t \in Threads :
        \/ Enter(t)
        \/ AnalyzeBasic(t)
        \/ AnalyzeDerived(t)
        \/ CalculateCosts(t)
        \/ CalculateTotal(t)
        \/ List(t)
        \/ Leave(t)

SpecShared == Init /\ [][NextShared]_vars

(***************************************************************************)
(* Importing files: a StepProcessor is constructed, files are given to its *)
(* process method or to load_geometry, and the caller takes the result.    *)
(***************************************************************************)
\* the sizes of the uploaded files, in bytes
FileSizes == {1000, 150000}

\* what trimesh.load does with a file: it raises, or gives a Trimesh, a Trimesh
\* without vertices, a Scene of meshes, or an object that is no mesh
TrimeshOutcomes == {"raises", "mesh", "empty", "scene", "other"}

\* what cadquery does with a STEP file: it raises (or is not installed), or
\* tessellates to nothing, or to a mesh
CadqueryOutcomes == {"raises", "empty", "mesh"}

Files ==
    {[name |-> "part." \o e, ext |-> e, size |-> n, occ_modules_load |-> l,
      occ_reads |-> r, cadquery |-> c, trimesh |-> t, torusknot_available |-> k] :
        e \in {"step", "stl"}, n \in FileSizes, l \in BOOLEAN, r \in BOOLEAN,
        c \in CadqueryOutcomes, t \in TrimeshOutcomes, k \in BOOLEAN}

\* StepProcessor() is constructed, with or without pythonocc-core installed
NewProcessor ==
    /\ processor = NoCall
    /\ \E occ_importable \in BOOLEAN : processor' = StepProcessor_init(occ_importable)
    /\ UNCHANGED <<upload, loaded, req, res, mesh, geo>>
    /\ UNCHANGED quote_vars
    /\ UNCHANGED shared_vars

\* a file is handed to StepProcessor.process or to load_geometry
Import ==
    /\ upload = NoCall
    /\ \E file \in Files, op \in {"process", "load_geometry"} :
           /\ op = "process" => processor # NoCall
           /\ upload' = [status |-> "uploaded", op |-> op, file |-> file]
    /\ UNCHANGED <<processor, loaded, req, res, mesh, geo>>
    /\ UNCHANGED quote_vars
    /\ UNCHANGED shared_vars

\* StepProcessor.process runs on the file
Process ==
    /\ upload.status = "uploaded"
    /\ upload.op = "process"
    /\ loaded = NoCall
    /\ LET step == process(processor, upload.file)
       IN  /\ processor' = step.self
           /\ loaded' = step.result
    /\ UNCHANGED <<upload, req, res, mesh, geo>>
    /\ UNCHANGED quote_vars
    /\ UNCHANGED shared_vars

\* load_geometry runs on the file
LoadGeometry ==
    /\ upload.status = "uploaded"
    /\ upload.op = "load_geometry"
    /\ loaded = NoCall
    /\ loaded' = load_geometry(upload.file)
    /\ UNCHANGED <<processor, upload, req, res, mesh, geo>>
    /\ UNCHANGED quote_vars
    /\ UNCHANGED shared_vars

\* the caller takes the result (or the exception)
Deliver ==
    /\ loaded # NoCall
    /\ upload' = NoCall
    /\ loaded' = NoCall
    /\ UNCHANGED <<processor, req, res, mesh, geo>>
    /\ UNCHANGED quote_vars
    /\ UNCHANGED shared_vars

NextImport == NewProcessor \/ Import \/ Process \/ LoadGeometry \/ Deliver

SpecImport == Init /\ [][NextImport]_vars

(***************************************************************************)
(* Claims about BudgetCalculator.calculate, checked under Spec.            *)
(***************************************************************************)
\* calculate has run on the request: it returned a budget or raised
Served == res # NoCall

\* calculate returned a budget
Priced == res.status = "ok"

\* the full-precision subtotal of the returned budget
FullSubtotal ==
    RAdd(RAdd(RAdd(res.material_cost, res.processing_cost), res.mold_base_cost),
         res.setup_fee)

\* the full-precision total: subtotal x (1 - discount rate)
FullTotal == RMul(FullSubtotal, RSub(RInt(1), res.discount))

\* the served request with another quantity
WithQuantity(n) == [req EXCEPT !.quantity = IntQ(n)]

\* C1: the discount rate applied to the subtotal is 15% for quantity >= 100,
\* 10% for 50..99, 5% for 10..49 and 0% below 10
C1_DiscountTiers ==
    Priced =>
        LET q == req.quantity.val
        IN  /\ (q >= 100 => res.discount = R(15, 100))
            /\ (q >= 50 /\ q < 100 => res.discount = R(10, 100))
            /\ (q >= 10 /\ q < 50 => res.discount = R(5, 100))
            /\ (q < 10 => res.discount = RInt(0))
            /\ res.breakdown.discount_amount = Round(RMul(FullSubtotal, res.discount), 2)
            /\ RInt(res.breakdown.discount_percent) = RMul(res.discount, RInt(100))

C1_Witness ==
    /\ Priced
    /\ req.quantity = IntQ(10)
    /\ res.discount = R(5, 100)
    /\ res.breakdown.discount_percent = 5

\* C2: total_price is the full-precision subtotal x (1 - discount rate), rounded
\* to 2 decimals only as the reported figure
C2_TotalFromSubtotal ==
    Priced => res.total_price = Round(FullTotal, 2)

C2_Witness ==
    /\ Priced
    /\ res.discount = R(15, 100)
    /\ res.breakdown.subtotal # FullSubtotal
    /\ res.total_price # FullTotal

\* C3: with a positive subtotal the price per piece never rises when the quantity
\* grows by one (quantity >= 1), and strictly falls when the quantity reaches
\* 10, 50 or 100
C3_PricePerPieceMonotone ==
    (Priced /\ req.quantity.val >= 1 /\ RGt(FullSubtotal, RInt(0))) =>
        LET q    == req.quantity.val
            more == calculate_request(WithQuantity(q + 1))
        IN  /\ RLe(more.breakdown.price_per_piece, res.breakdown.price_per_piece)
            /\ (q + 1 \in {10, 50, 100} =>
                    RLt(more.breakdown.price_per_piece, res.breakdown.price_per_piece))

C3_Witness ==
    /\ Priced
    /\ req.quantity = IntQ(49)
    /\ RGt(FullSubtotal, RInt(0))
    /\ RLt(calculate_request(WithQuantity(50)).breakdown.price_per_piece,
           res.breakdown.price_per_piece)

\* C4: for quantity > 0 the reported price per piece is the full-precision total
\* divided by the quantity, rounded to 2 decimals once, at the output
C4_PricePerPieceSingleRounding ==
    (Priced /\ req.quantity.val > 0) =>
        res.breakdown.price_per_piece =
            Round(RDiv(FullTotal, RInt(req.quantity.val)), 2)

\* C5: a zero or negative quantity is priced without raising, with the discount
\* of quantity 1 (0%) and a price per piece of 0
C5_NonPositiveQuantity ==
    (Served /\ req.quantity.kind = "int" /\ req.quantity.val <= 0) =>
        /\ Priced
        /\ res.discount = RInt(0)
        /\ res.discount = calculate_request(WithQuantity(1)).discount
        /\ res.total_price = calculate_request(WithQuantity(1)).total_price
        /\ res.breakdown.price_per_piece = RInt(0)

C5_Witness ==
    /\ Priced
    /\ req.quantity = IntQ(-1)
    /\ res.breakdown.price_per_piece = RInt(0)
    /\ RGt(res.total_price, RInt(0))

\* the statistics of the request lack volume or the complexity metrics
LacksStatistics ==
    ~ ({"volume", "complexity_metrics"} \subseteq DOMAIN req.stats)

\* the statistics with the missing fields filled by the defaults of calculate
DefaultedStats ==
    [volume |-> Get(req.stats, "volume", RInt(100)),
     complexity_metrics |->
         Get(req.stats, "complexity_metrics", [complexity_score |-> RInt(50)])]

C7_UnknownKeysFallBack ==
    (Served /\ req.quantity.kind = "int"
     /\ req.material \notin DOMAIN MATERIAL_PRICES
     /\ req.finish \notin DOMAIN FINISH_MULTIPLIERS) =>
        LET ref == calculate_request([req EXCEPT !.material = "P20",
                                                 !.finish = "machined"])
        IN  /\ Priced
            /\ res.material_cost = ref.material_cost
            /\ res.processing_cost = ref.processing_cost
            /\ res.mold_base_cost = ref.mold_base_cost
            /\ res.setup_fee = ref.setup_fee
            /\ res.discount = ref.discount
            /\ res.total_price = ref.total_price
            /\ res.breakdown = ref.breakdown

C7_Witness ==
    /\ Priced
    /\ req.material = "UNOBTAINIUM"
    /\ req.finish = "mirror"
    /\ "volume" \in DOMAIN req.stats
    /\ req.stats.volume = RInt(1000)
    /\ res.breakdown.material_cost = R(7475, 10)

\* C8: the material cost is volume x 1.15 x the unit price of the selected
\* material, shown in the breakdown to 2 decimals; volume 1000 of P20 shows 747.5
C8_MaterialCost ==
    Priced =>
        LET volume == Get(req.stats, "volume", RInt(100))
            price  == IF req.material \in DOMAIN MATERIAL_PRICES
                      THEN MATERIAL_PRICES[req.material].price
                      ELSE MATERIAL_PRICES["P20"].price
            cost   == RMul(RMul(volume, R(115, 100)), price)
        IN  /\ res.material_cost = cost
            /\ res.breakdown.material_cost = Round(cost, 2)
            /\ (volume = RInt(1000) /\ req.material = "P20" =>
                    res.breakdown.material_cost = R(7475, 10))

C8_Witness ==
    /\ Priced
    /\ req.material = "P20"
    /\ req.finish = "machined"
    /\ req.quantity = IntQ(1)
    /\ "volume" \in DOMAIN req.stats
    /\ req.stats.volume = RInt(1000)
    /\ res.breakdown.material_cost = R(7475, 10)

(***************************************************************************)
(* Claims about GeometryAnalyzer, checked under SpecGeometry.              *)
(***************************************************************************)
Analysed == geo.status = "ok"

\* the unrounded metrics of the analysed mesh
AnalysedValues == complexity_values(mesh.m, geo.volume, geo.area, geo.dimensions)

\* C9: complexity_score lies in [0,100] and is the weighted sum of the four
\* metrics clamped to [0,100] (reported to 2 decimals), for every mesh
C9_ScoreClamped ==
    Analysed =>
        LET score == geo.complexity_metrics.complexity_score
        IN  /\ RLe(RInt(0), score)
            /\ RLe(score, RInt(100))
            /\ (~ mesh.m.complexity_error =>
                    score = Round(RMax(RInt(0), RMin(RInt(100), AnalysedValues.sum)), 2))

C9_Witness ==
    /\ Analysed
    /\ ~ mesh.m.complexity_error
    /\ RGt(AnalysedValues.sum, RInt(100))
    /\ geo.complexity_metrics.complexity_score = RInt(100)

\* the rating the thresholds 25 / 50 / 75 give a score
RatingOf(score) ==
    IF RLt(score, RInt(25)) THEN "Baixa"
    ELSE IF RLt(score, RInt(50)) THEN "Media"
    ELSE IF RLt(score, RInt(75)) THEN "Alta"
    ELSE "Muito Alta"

\* C10: in every complexity_metrics record, the fallback included, the rating is
\* the one the thresholds give the reported complexity_score
C10_RatingFromReportedScore ==
    Analysed =>
        geo.complexity_metrics.difficulty_rating =
            RatingOf(geo.complexity_metrics.complexity_score)

\* C11: for every mesh that is not watertight, analyze reports volume 0 and the
\* 3x3 identity matrix as inertia tensor
C11_NonWatertight ==
    (Analysed /\ ~ mesh.m.is_watertight) =>
        /\ geo.volume = RInt(0)
        /\ geo.inertia_tensor = << <<1, 0, 0>>, <<0, 1, 0>>, <<0, 0, 1>> >>

\* an open mesh whose own volume is not 0 and whose moment of inertia cannot be read
C11_Witness ==
    /\ Analysed
    /\ ~ mesh.m.is_watertight
    /\ mesh.m.volume = RInt(1000)
    /\ "inertia" \in mesh.m.failing
    /\ geo.volume = RInt(0)
    /\ geo.inertia_tensor = << <<1, 0, 0>>, <<0, 1, 0>>, <<0, 0, 1>> >>

\* analyze has run on the submitted mesh: it returned statistics or raised
AnalyzeServed == geo # NoCall

\* C12: analyze fails with InvalidGeometry, producing no statistics, exactly when
\* the mesh has no vertex or no face; for every other mesh it returns statistics
C12_InvalidGeometryOnEmptyMesh ==
    AnalyzeServed =>
        IF mesh.m.vertex_count = 0 \/ Len(mesh.m.faces) = 0
        THEN geo = [status |-> "raised", error |-> "InvalidGeometry"]
        ELSE geo.status = "ok"

\* C18: when computing the complexity metrics fails, _calculate_complexity does
\* not propagate the error (analyze still returns its statistics) and returns
\* exactly the record: surface_volume_ratio 0, compactness 1, triangle_density 0,
\* average_aspect_ratio 1, complexity_score 50, difficulty_rating Medium
C18_ComplexityFallback ==
    (AnalyzeServed /\ mesh.m.bounds # None /\ mesh.m.complexity_error) =>
        /\ Analysed
        /\ geo.complexity_metrics =
               [surface_volume_ratio |-> RInt(0), compactness |-> RInt(1),
                triangle_density |-> RInt(0), average_aspect_ratio |-> RInt(1),
                complexity_score |-> RInt(50), difficulty_rating |-> "Media"]

\* the fallback replaces metrics that would have come out differently
C18_Witness ==
    /\ Analysed
    /\ mesh.m.complexity_error
    /\ RGt(AnalysedValues.sum, RInt(100))
    /\ geo.complexity_metrics.complexity_score = RInt(50)
    /\ geo.complexity_metrics.difficulty_rating = "Media"

\* the fields of a statistics bundle
StatisticsFields ==
    {"status", "volume", "area", "dimensions", "inertia_tensor", "mesh_info",
     "complexity_metrics", "thickness_analysis", "curvature", "manufacturing_analysis"}

\* C19: on a mesh with a vertex and a face, a derived metric that fails never makes
\* analyze fail: every field is still produced, and the failing metric is replaced
\* by its documented default (the identity for the inertia tensor, the neutral
\* record for the complexity metrics)
C19_FailingMetricDefaults ==
    (AnalyzeServed /\ mesh.m.vertex_count > 0 /\ Len(mesh.m.faces) > 0) =>
        /\ Analysed
        /\ DOMAIN geo = StatisticsFields
        /\ "inertia" \in mesh.m.failing =>
               geo.inertia_tensor = << <<1, 0, 0>>, <<0, 1, 0>>, <<0, 0, 1>> >>
        /\ mesh.m.complexity_error =>
               /\ geo.complexity_metrics.complexity_score = RInt(50)
               /\ geo.complexity_metrics.compactness = RInt(1)

(***************************************************************************)
(* Claims about the mold-base cost and the machining rate, checked under   *)
(* SpecConfigured.                                                         *)
(***************************************************************************)
\* supplier base price + plate-material add-on + insulation and lifting-hole extras
CadCatalogCost(cfg) ==
    LET supplier == IF "supplier" \in DOMAIN cfg /\ cfg.supplier \in DOMAIN CAD_MOLD_BASE_PRICES
                    THEN cfg.supplier ELSE "HASCO Standard"
        addon    == IF "plateMaterial" \in DOMAIN cfg
                    THEN IF cfg.plateMaterial \in DOMAIN PLATE_MATERIAL_ADDONS
                         THEN PLATE_MATERIAL_ADDONS[cfg.plateMaterial] ELSE 0
                    ELSE 0
        extras   == (IF "insulationPlates" \in DOMAIN cfg /\ cfg.insulationPlates
                     THEN 800 ELSE 0)
                    + (IF "liftingHoles" \in DOMAIN cfg /\ cfg.liftingHoles THEN 300 ELSE 0)
    IN  RInt(CAD_MOLD_BASE_PRICES[supplier].base + addon + extras)

\* (plateWidth x plateLength / 10000) x 400 + hot-runner, conformal-cooling and
\* double-extraction extras
LegacyPlateCost(cfg) ==
    LET width  == IF "plateWidth" \in DOMAIN cfg THEN cfg.plateWidth ELSE 296
        length == IF "plateLength" \in DOMAIN cfg THEN cfg.plateLength ELSE 296
        extras == (IF "hotRunner" \in DOMAIN cfg /\ cfg.hotRunner THEN 3500 ELSE 0)
                  + (IF "conformalCooling" \in DOMAIN cfg /\ cfg.conformalCooling
                     THEN 5000 ELSE 0)
                  + (IF "doubleExtraction" \in DOMAIN cfg /\ cfg.doubleExtraction
                     THEN 1500 ELSE 0)
    IN  RAdd(R(width * length * 400, 10000), RInt(extras))

\* C16 as stated: the mold-base cost is the CAD-catalog cost if a CAD config is
\* specified, else the legacy plate cost if a legacy config is specified, else the
\* flat 3000; a specified config, even one without a recognized key, is never
\* given the flat default
C16_SpecifiedConfigPrecedence ==
    Priced =>
        res.mold_base_cost =
            IF req.cad_base_config # None THEN CadCatalogCost(req.cad_base_config[1])
            ELSE IF req.mold_base_config # None
                 THEN LegacyPlateCost(req.mold_base_config[1])
                 ELSE RInt(3000)

\* a config that is passed and is not the empty dict
NonEmpty(config) == config # None /\ config[1] # EmptyDict

\* C16 as amended: the same precedence over the configs that are not empty; an
\* empty config counts as none, a config without a recognized key is priced with
\* the defaults of its rule
C16_NonEmptyConfigPrecedence ==
    Priced =>
        res.mold_base_cost =
            IF NonEmpty(req.cad_base_config) THEN CadCatalogCost(req.cad_base_config[1])
            ELSE IF NonEmpty(req.mold_base_config)
                 THEN LegacyPlateCost(req.mold_base_config[1])
                 ELSE RInt(3000)

\* a CAD config without a recognized key wins over a legacy config with extras
C16_Witness ==
    /\ Priced
    /\ req.cad_base_config = Some([colour |-> "red"])
    /\ req.mold_base_config =
           Some([hotRunner |-> TRUE, conformalCooling |-> TRUE, doubleExtraction |-> TRUE])
    /\ res.mold_base_cost = RInt(3500)

\* the complexity score of the request, 50 when the statistics carry none
ScoreOf(stats) ==
    IF "complexity_metrics" \in DOMAIN stats
    THEN stats.complexity_metrics.complexity_score ELSE RInt(50)

\* the rate C20 states: 85 above factor 0.7, 55 above 0.4 up to 0.7, 0.9 x 55 up to 0.4
StatedHourlyRate(factor) ==
    IF RGt(factor, R(7, 10)) THEN RInt(85)
    ELSE IF RGt(factor, R(4, 10)) /\ RLe(factor, R(7, 10)) THEN RInt(55)
    ELSE RMul(R(9, 10), RInt(55))

\* the processing cost when machining is paid at the given hourly rate
ProcessingCostAt(rate, volume, finish, factor) ==
    LET multiplier == FINISH_MULTIPLIERS[finish].multiplier
        machining  ==
            RMul(RDiv(RMul(RMul(volume, R(1, 2)), RAdd(RInt(1), RMul(factor, R(1, 2)))),
                      RInt(60)), rate)
        finish_c   == RMul(RMul(machining, RSub(multiplier, RInt(1))), R(3, 10))
        edm        == IF edm_applies(finish, factor)
                      THEN RMul(RDiv(RMul(volume, R(2, 10)), RInt(60)), RInt(75))
                      ELSE RInt(0)
        finishing  == RMul(RDiv(RMul(RMul(volume, R(1, 10)), multiplier), RInt(60)), RInt(45))
        assembly   == RMul(RAdd(RInt(8), RMul(factor, RInt(4))), RInt(50))
        quality    == RMul(RAdd(RInt(4), RMul(factor, RInt(2))), RInt(60))
    IN  RAdd(RAdd(RAdd(RAdd(RAdd(machining, finish_c), edm), finishing), assembly), quality)

\* C20: machining is paid at the rate selected by complexity_factor = score / 50:
\* 85 (5-axis) when factor > 0.7, 55 (3-axis) when 0.4 < factor <= 0.7, and
\* 0.9 x 55 when factor <= 0.4; factor 0.7 gets the 3-axis rate, 0.4 the reduced one
C20_HourlyRateByFactor ==
    Priced =>
        LET factor == RDiv(ScoreOf(req.stats), RInt(50))
            volume == Get(req.stats, "volume", RInt(100))
        IN  res.processing_cost =
                ProcessingCostAt(StatedHourlyRate(factor), volume, req.finish, factor)

\* score 35 is factor 0.7 exactly: 1000 cm3 machined cost 11.25 h at 55, not at 85
C20_Witness ==
    /\ Priced
    /\ req.finish = "machined"
    /\ ScoreOf(req.stats) = RInt(35)
    /\ Get(req.stats, "volume", RInt(0)) = RInt(1000)
    /\ res.processing_cost =
           ProcessingCostAt(RInt(55), RInt(1000), "machined", R(7, 10))
    /\ res.processing_cost #
           ProcessingCostAt(RInt(85), RInt(1000), "machined", R(7, 10))

(***************************************************************************)
(* Claims relating the two pricing paths, checked under SpecPaths.         *)
(***************************************************************************)
\* both paths have priced the request
BothPriced == Priced /\ sres.status = "ok"

\* C17: for every quantity the multiplier of the simple path is 1 - the discount
\* rate of the detailed path (0.85 / 0.90 / 0.95 / 1.0 against 15% / 10% / 5% / 0%,
\* same floors 100 / 50 / 10), and the percentage in its quantity_discount label is
\* the detailed discount_percent
C17_EquivalentDiscounts ==
    BothPriced =>
        /\ RDiv(sres.setup_fee, RInt(500)) = RSub(RInt(1), res.discount)
        /\ sres.quantity_discount = res.breakdown.discount_percent

(***************************************************************************)
(* Claims about calls sharing the two service objects, checked under       *)
(* SpecShared.                                                             *)
(***************************************************************************)
\* thread t has finished a call of the operation and not yet returned
Done(t, op) == threads[t].op = op /\ threads[t].pc = "done"

\* C13: analyze on a mesh yields the statistics every earlier analyze on the same
\* mesh returned, whatever analyze, calculate and listing calls ran in between or
\* run at the same time: the result depends on the mesh alone
C13_AnalyzeIdempotent ==
    \A t \in Threads :
        Done(t, "analyze") =>
            /\ \A p \in seen : p[1] = threads[t].passed => p[2] = threads[t].result
            /\ \A u \in Threads :
                   (Done(u, "analyze") /\ threads[u].passed = threads[t].passed)
                       => threads[u].result = threads[t].result

\* a second analysis of a mesh, after another mesh was analysed and while a
\* calculate call is half-way
C13_Witness ==
    \E t, u \in Threads :
        /\ Done(t, "analyze")
        /\ threads[t].result.status = "ok"
        /\ \E p, q \in seen : p[1] = threads[t].passed /\ q[1] # threads[t].passed
        /\ threads[u].op = "calculate"
        /\ threads[u].pc = "costs"

\* C14: after any sequence of calculate and catalog-listing calls the catalogs are
\* what they were, and so are the stats and config arguments of the callers
C14_CatalogsAndArgumentsUnchanged ==
    /\ calculator.MATERIAL_PRICES = MATERIAL_PRICES
    /\ calculator.FINISH_MULTIPLIERS = FINISH_MULTIPLIERS
    /\ calculator.CAD_MOLD_BASE_PRICES = CAD_MOLD_BASE_PRICES
    /\ calculator.PLATE_MATERIAL_ADDONS = PLATE_MATERIAL_ADDONS
    /\ calculator.MOLD_BASE_EXTRAS = MOLD_BASE_EXTRAS
    /\ calculator.HOURLY_RATES = HOURLY_RATES
    /\ \A t \in Threads :
           threads[t].op = "calculate" =>
               /\ threads[t].args.stats = threads[t].passed.stats
               /\ threads[t].args.mold_base_config = threads[t].passed.mold_base_config
               /\ threads[t].args.cad_base_config = threads[t].passed.cad_base_config

\* a calculate call with unknown keys and configs and a listing have both run
C14_Witness ==
    \E t, u \in Threads :
        /\ Done(t, "calculate")
        /\ threads[t].passed.material = "UNOBTAINIUM"
        /\ threads[t].passed.mold_base_config # None
        /\ threads[t].result.status = "ok"
        /\ Done(u, "get_material_list")
        /\ Cardinality(threads[u].result.value) = 5
        /\ calculator.MATERIAL_PRICES = MATERIAL_PRICES

\* the result of the call of thread t when it runs alone on fresh objects
ResultAlone(t) ==
    CASE threads[t].op = "analyze"   -> analyze(threads[t].passed)
      [] threads[t].op = "calculate" -> calculate_request(threads[t].passed)
      [] OTHER                       -> listing_of(BudgetCalculator_init, threads[t].op)

\* C15: in every interleaving of concurrent analyze and calculate calls on the
\* shared objects each call gets the result it gets when run alone, and no step
\* of a call writes the shared objects or the variables of another call
C15_InterleavingIndependent ==
    /\ [](\A t \in Threads :
             (threads[t] # Idle /\ threads[t].pc = "done")
                 => threads[t].result = ResultAlone(t))
    /\ [][/\ analyzer' = analyzer
          /\ calculator' = calculator
          /\ \A t, u \in Threads :
                 (t # u /\ threads'[t] # threads[t]) => threads'[u] = threads[u]]_vars

\* an analyze call and a calculate call, both finished, neither returned yet
C15_Witness ==
    \E t, u \in Threads :
        /\ Done(t, "analyze")
        /\ threads[t].result.status = "ok"
        /\ Done(u, "calculate")
        /\ threads[u].result.status = "ok"

(***************************************************************************)
(* Claims about the processing cost and the setup fee, checked under       *)
(* SpecConfigured.                                                         *)
(***************************************************************************)
\* the processing cost without its EDM component: machining, finish, manual
\* finishing, assembly and quality control
OtherProcessingCosts(volume, finish, factor) ==
    LET multiplier == FINISH_MULTIPLIERS[finish].multiplier
        machining  ==
            RMul(RDiv(RMul(RMul(volume, R(1, 2)), RAdd(RInt(1), RMul(factor, R(1, 2)))),
                      RInt(60)), StatedHourlyRate(factor))
        finish_c   == RMul(RMul(machining, RSub(multiplier, RInt(1))), R(3, 10))
        finishing  == RMul(RDiv(RMul(RMul(volume, R(1, 10)), multiplier), RInt(60)), RInt(45))
        assembly   == RMul(RAdd(RInt(8), RMul(factor, RInt(4))), RInt(50))
        quality    == RMul(RAdd(RInt(4), RMul(factor, RInt(2))), RInt(60))
    IN  RAdd(RAdd(RAdd(RAdd(machining, finish_c), finishing), assembly), quality)

\* the EDM component of the processing cost of the priced request
EdmComponent ==
    RSub(res.processing_cost,
         OtherProcessingCosts(Get(req.stats, "volume", RInt(100)), req.finish,
                              RDiv(ScoreOf(req.stats), RInt(50))))

\* C21: the processing cost holds an EDM component of volume x 0.2 minutes at the
\* EDM rate (75 per hour) exactly when the finish is "edm" or complexity_factor
\* > 0.8, and an EDM component of 0 otherwise
C21_EdmCondition ==
    Priced =>
        LET factor == RDiv(ScoreOf(req.stats), RInt(50))
            volume == Get(req.stats, "volume", RInt(100))
        IN  EdmComponent =
                IF req.finish = "edm" \/ RGt(factor, R(8, 10))
                THEN RMul(RDiv(RMul(volume, R(2, 10)), RInt(60)), RInt(75))
                ELSE RInt(0)

\* score 40 is factor 0.8 exactly: a machined part of 1000 cm3 pays no EDM
C21_Witness ==
    /\ Priced
    /\ req.finish = "machined"
    /\ ScoreOf(req.stats) = RInt(40)
    /\ Get(req.stats, "volume", RInt(0)) = RInt(1000)
    /\ EdmComponent = RInt(0)

\* the legacy mold-base config of the request asks for conformal cooling
ConformalCoolingRequested ==
    /\ req.mold_base_config # None
    /\ "conformalCooling" \in DOMAIN req.mold_base_config[1]
    /\ req.mold_base_config[1].conformalCooling

\* C26: the setup fee is the base fee 2500 plus the engineering surcharge 1500
\* exactly when conformal cooling is requested, and the base fee alone otherwise
C26_SetupFee ==
    Priced =>
        /\ res.setup_fee = IF ConformalCoolingRequested THEN RInt(4000) ELSE RInt(2500)
        /\ res.breakdown.setup_fee = res.setup_fee

\* a request with conformal cooling is charged 4000, also next to a CAD config
C26_Witness ==
    /\ Priced
    /\ ConformalCoolingRequested
    /\ Truthy(req.cad_base_config)
    /\ res.setup_fee = RInt(4000)

\* whether a legacy mold-base config asks for conformal cooling
AsksConformalCooling(config) ==
    /\ config # None
    /\ "conformalCooling" \in DOMAIN config[1]
    /\ config[1].conformalCooling

\* the result of the same call with another legacy mold-base config
ResultWithLegacy(config) == calculate_request([req EXCEPT !.mold_base_config = config])

\* C29 as stated: with a non-empty CAD config, a call differing only in the legacy
\* config returns the same mold_base_cost, setup_fee, subtotal and total_price
C29_LegacyConfigIgnored ==
    (Priced /\ Truthy(req.cad_base_config)) =>
        \A config \in ConfiguredMoldBases :
            /\ ResultWithLegacy(config).mold_base_cost = res.mold_base_cost
            /\ ResultWithLegacy(config).setup_fee = res.setup_fee
            /\ ResultWithLegacy(config).breakdown.subtotal = res.breakdown.subtotal
            /\ ResultWithLegacy(config).total_price = res.total_price

\* C29, amended: with a non-empty CAD config, a call differing only in the legacy
\* config returns the same mold_base_cost; it returns the same setup_fee,
\* subtotal and total_price when both legacy configs agree on conformal cooling,
\* and a setup_fee and subtotal apart by the 1500 surcharge when they do not
C29_LegacyConfigOnlySetsSetupFee ==
    (Priced /\ Truthy(req.cad_base_config)) =>
        \A config \in ConfiguredMoldBases :
            /\ ResultWithLegacy(config).mold_base_cost = res.mold_base_cost
            /\ IF AsksConformalCooling(config) = AsksConformalCooling(req.mold_base_config)
               THEN /\ ResultWithLegacy(config).setup_fee = res.setup_fee
                    /\ ResultWithLegacy(config).breakdown.subtotal = res.breakdown.subtotal
                    /\ ResultWithLegacy(config).total_price = res.total_price
               ELSE LET with    == IF AsksConformalCooling(config)
                                   THEN ResultWithLegacy(config) ELSE res
                        without == IF AsksConformalCooling(config)
                                   THEN res ELSE ResultWithLegacy(config)
                    IN  /\ with.setup_fee = RAdd(without.setup_fee, RInt(1500))
                        /\ with.breakdown.subtotal =
                               RAdd(without.breakdown.subtotal, RInt(1500))

\* a CAD-catalog call whose legacy config asks for a hot runner, conformal cooling
\* and double extraction: the mold base costs what it costs without the legacy
\* config, the setup fee is 4000 instead of 2500
C29_Witness ==
    /\ Priced
    /\ Truthy(req.cad_base_config)
    /\ AsksConformalCooling(req.mold_base_config)
    /\ Get(req.mold_base_config[1], "hotRunner", FALSE)
    /\ ResultWithLegacy(None).mold_base_cost = res.mold_base_cost
    /\ res.setup_fee = RInt(4000)
    /\ ResultWithLegacy(None).setup_fee = RInt(2500)

(***************************************************************************)
(* Claims about the face classes and the manufacturing analysis, checked   *)
(* under SpecGeometry.                                                     *)
(***************************************************************************)
\* the interior angles of a face with these edges, in degrees (to 2 decimals)
degrees_of_face(edges) ==
    CASE edges = <<3, 4, 5>>          -> <<R(3687, 100), R(5313, 100), RInt(90)>>
      [] edges = <<0, 2, 2>>          -> <<RInt(90), RInt(90), RInt(0)>>
      [] edges = <<4000, 5000, 6499>> -> <<R(3797, 100), R(5026, 100), R(9177, 100)>>
      [] edges = <<1, 20, 20>>        -> <<R(287, 100), R(8857, 100), R(8857, 100)>>
      [] edges = <<1, 5, 5>>          -> <<R(1148, 100), R(8426, 100), R(8426, 100)>>
      [] edges = <<1, 2, 2>>          -> <<R(2896, 100), R(7552, 100), R(7552, 100)>>
      [] edges = <<1, 3, 3>>          -> <<R(1919, 100), R(8041, 100), R(8041, 100)>>
      [] OTHER                        -> <<RInt(60), RInt(60), RInt(60)>>

\* the class C22 states for a face: right if an angle is within 1 degree of 90,
\* otherwise acute if all angles are below 90, otherwise obtuse
StatedFaceType(edges) ==
    LET deg == degrees_of_face(edges)
    IN  IF \E i \in 1 .. 3 : RGe(deg[i], RInt(89)) /\ RLe(deg[i], RInt(91)) THEN "right"
        ELSE IF \A i \in 1 .. 3 : RLt(deg[i], RInt(90)) THEN "acute"
        ELSE "obtuse"

\* the number of faces of the submitted mesh that C22 puts in the class
StatedCount(type) ==
    Cardinality({i \in 1 .. Len(mesh.m.faces) : StatedFaceType(mesh.m.faces[i]) = type})

\* C22: on a mesh whose face angles can be read, acute + right + obtuse is the
\* face count and every face is counted in the class its angles in degrees give
\* it: right when an angle is within 1 degree of 90, else acute when all angles
\* are below 90, else obtuse
C22_FaceAngleClasses ==
    (Analysed /\ "face_types" \notin mesh.m.failing) =>
        LET types == geo.mesh_info.face_types
        IN  /\ types.acute + types.right + types.obtuse = Len(mesh.m.faces)
            /\ types.right = StatedCount("right")
            /\ types.acute = StatedCount("acute")
            /\ types.obtuse = StatedCount("obtuse")

\* the manufacturing analysis was computed (it did not raise)
ManufacturingAnalysed ==
    Analysed /\ "manufacturing" \notin mesh.m.failing

\* C23: the estimated machining hours are the reported volume x 0.01 x
\* (complexity_score / 50), to one decimal, so that a non-watertight mesh, whose
\* reported volume is 0, gets 0 hours
C23_MachiningHoursFromReportedVolume ==
    ManufacturingAnalysed =>
        /\ geo.manufacturing_analysis.estimated_machining_hours =
               Round(RMul(RMul(geo.volume, R(1, 100)),
                          RDiv(geo.complexity_metrics.complexity_score, RInt(50))), 1)
        /\ ~mesh.m.is_watertight =>
               geo.manufacturing_analysis.estimated_machining_hours = RInt(0)

\* the process recommendations of the analysis, as a set
Recommended ==
    {geo.manufacturing_analysis.process_recommendations[i] :
        i \in 1 .. Len(geo.manufacturing_analysis.process_recommendations)}

\* C24: the process recommendations hold the 3-axis entry exactly when score < 40,
\* the 5-axis entry exactly when score >= 40, the EDM entry exactly when the
\* average aspect ratio > 3 and the additive entry exactly when score > 60; so
\* exactly one of 3-axis and 5-axis, never an empty list, never additive with 3-axis
C24_ProcessRecommendations ==
    ManufacturingAnalysed =>
        LET score  == geo.complexity_metrics.complexity_score
            aspect == geo.complexity_metrics.average_aspect_ratio
        IN  /\ ("CNC 3-eixos" \in Recommended) <=> RLt(score, RInt(40))
            /\ ("CNC 5-eixos" \in Recommended) <=> RGe(score, RInt(40))
            /\ ("EDM" \in Recommended) <=> RGt(aspect, RInt(3))
            /\ ("DMLS" \in Recommended) <=> RGt(score, RInt(60))
            /\ Recommended # {}
            /\ ~({"CNC 3-eixos", "CNC 5-eixos"} \subseteq Recommended)
            /\ ~({"CNC 3-eixos", "DMLS"} \subseteq Recommended)
            /\ Len(geo.manufacturing_analysis.process_recommendations)
                   = Cardinality(Recommended)

\* a mesh of score 40 exactly gets 5-axis and not 3-axis
C24_Witness ==
    /\ ManufacturingAnalysed
    /\ geo.complexity_metrics.complexity_score = RInt(40)
    /\ "CNC 5-eixos" \in Recommended

\* min_extent / max_extent of the bounding box of the submitted mesh, 0 when the
\* largest extent is 0
ExtentRatio ==
    LET b    == mesh.m.bounds[1]
        size == [i \in 1 .. 3 |-> b.hi[i] - b.lo[i]]
    IN  IF Max3(size) > 0 THEN R(Min3(size), Max3(size)) ELSE RInt(0)

\* C25 as stated: the reported compactness is min_extent / max_extent (to 4
\* decimals) and lies in (0,1] for every analyzed mesh
C25_CompactnessPositive ==
    Analysed =>
        LET compactness == geo.complexity_metrics.compactness
        IN  /\ compactness = Round(ExtentRatio, 4)
            /\ RGt(compactness, RInt(0))
            /\ RLe(compactness, RInt(1))

\* C25, amended: the reported compactness lies in [0,1] for every analyzed mesh;
\* it is min_extent / max_extent to 4 decimals, 0 for a flat mesh and for a mesh
\* of no extent, and 1 in the fallback record of a failed complexity computation
C25_CompactnessRange ==
    Analysed =>
        LET compactness == geo.complexity_metrics.compactness
        IN  /\ compactness =
                   IF mesh.m.complexity_error THEN RInt(1) ELSE Round(ExtentRatio, 4)
            /\ RGe(compactness, RInt(0))
            /\ RLe(compactness, RInt(1))

\* a flat sheet of 10 x 10 x 0 is analysed and reports compactness 0
C25_Witness ==
    /\ Analysed
    /\ ~ mesh.m.complexity_error
    /\ mesh.m.bounds[1].hi = <<10, 10, 0>>
    /\ geo.complexity_metrics.compactness = RInt(0)

(***************************************************************************)
(* Claims about importing files, checked under SpecImport.                 *)
(***************************************************************************)
\* every strategy of the operation failed on the file: trimesh.load raises, and
\* for load_geometry on a STEP file cadquery raises as well (OpenCASCADE in
\* StepProcessor extracts no triangulation from any file)
ImportFails ==
    /\ upload.status = "uploaded"
    /\ upload.file.trimesh = "raises"
    /\ (upload.op = "load_geometry" /\ upload.file.ext = "step")
           => upload.file.cadquery = "raises"

\* C27: when every load strategy fails on a file, the caller gets an error or no
\* mesh, never a torus knot or a box in place of the file's geometry
C27_ImportFailureSurfaced ==
    (ImportFails /\ loaded # NoCall) =>
        \/ loaded.status = "raised"
        \/ loaded.mesh.origin = "none"

(***************************************************************************)
(* Claims about the simple pricing path alone, checked under SpecPaths.    *)
(***************************************************************************)
\* the simple path's total for the same part, material and finish, one piece more
TotalOfOneMore ==
    calculate_budget_from_stats(sreq.stats, sreq.material, sreq.finish,
                                IntQ(sreq.quantity.val + 1)).total_price

\* C28: in the simple path, for the same statistics, material and finish, the
\* total for quantity + 1 is never below the total for quantity (quantity >= 1),
\* also from 9 to 10, from 49 to 50 and from 99 to 100
C28_TotalNonDecreasing ==
    (sres.status = "ok" /\ sreq.quantity.val >= 1) =>
        RLe(sres.total_price, TotalOfOneMore)

(***************************************************************************)
(* Claims about the catalog entries in the result, checked under Spec.     *)
(***************************************************************************)
\* C30: material_info and finish_info of the result are the catalog entries whose
\* price and multiplier entered the costs: the entry of the requested id, or the
\* P20 / machined entry when the id is unknown
C30_InfoIsEntryUsed ==
    Priced =>
        /\ DOMAIN res.material_info # {}
        /\ res.material_info = Get(MATERIAL_PRICES, req.material, MATERIAL_PRICES["P20"])
        /\ res.material_cost =
               RMul(RMul(Get(req.stats, "volume", RInt(100)), R(115, 100)),
                    res.material_info.price)
        /\ DOMAIN res.finish_info # {}
        /\ res.finish_info = Get(FINISH_MULTIPLIERS, req.finish, FINISH_MULTIPLIERS["machined"])

====
